---- MODULE Spec2Model ----
(***************************************************************************)
(* Circuit-Studio: the circuit evaluation engine of script.js              *)
(* (evaluateCircuit, buildCircuitModel, fallbackSimplePowering), the MNA   *)
(* solver of circuit-solver.js and the workspace operations that feed it.  *)
(*                                                                         *)
(* Numbers.  The JavaScript code computes in IEEE doubles.  The model      *)
(* computes in exact rationals <<n, d>> (d > 0, lowest terms).  Every      *)
(* nonzero rational that fits here is far above the 1e-18 pivot threshold  *)
(* of solveLinear, so "below the threshold" is "equal to zero".            *)
(***************************************************************************)
EXTENDS Integers, Sequences, FiniteSets, TLC

VARIABLES
  dom,                \* children of #workspace in document order (blocks and wire nodes)
  connections,        \* the array `connections`: wires, each a pair of connectors
  selectedConnector,  \* the connector picked by the first click, or NoConn
  nextEl,             \* identity of the next DOM element to be created
  blockIdCounter,     \* _blockIdCounter
  wireNodeCounter,    \* _wireNodeCounter
  solverLoaded,       \* whether the global CircuitSolver is defined
  simpleSolver,       \* window.SimpleSolver: "no", "loading" (script tag appended) or "yes"
  isSimRunning,       \* isSimRunning
  simInterval,        \* whether simInterval holds a timer (is not null)
  simTimers,          \* the interval timers of startSimulation that are still set
  isBasicSimRunning,  \* isBasicSimRunning
  basicSimInterval,   \* whether basicSimInterval holds a timer
  undoStack,          \* the array undoStack: snapshots pushed by pushUndo
  importing,          \* the file a FileReader is reading for importCircuit, 0 for none
  detached,           \* blocks taken out of the workspace that a connector still held
                      \* in selectedConnector or in a wire belongs to: their el and cid
  lastEval            \* what the last annotation pass did and returned

vars == <<dom, connections, selectedConnector, nextEl, blockIdCounter,
          wireNodeCounter, solverLoaded, simpleSolver, isSimRunning, simInterval, simTimers,
          isBasicSimRunning, basicSimInterval, undoStack, importing, detached, lastEval>>

(***************************************************************************)
(* Bounds of the model.                                                    *)
(***************************************************************************)
MaxBlocks == 1
MaxNodes == 1
MaxWires == 2
MaxCreated == 2
MaxUndo == 1
MaxEl == 4
MaxFileBlocks == 2
MaxTimers == 2

(***************************************************************************)
(* Bind(v, F) is F(v) with v computed first and once: TLC computes         *)
(* an operator's argument where the operator uses it, every time it does.  *)
(***************************************************************************)
Bind(v, F(_)) == CHOOSE r \in {F(x) : x \in {v}} : TRUE

(***************************************************************************)
(* Rationals.                                                              *)
(***************************************************************************)
Abs(n) == IF n < 0 THEN -n ELSE n

RECURSIVE GCD(_, _)
\* Euclid's algorithm, three divisions to a step
GCD(a, b) ==
  IF b = 0 THEN a
  ELSE IF a % b = 0 THEN b
  ELSE IF b % (a % b) = 0 THEN a % b
  ELSE GCD(b % (a % b), (a % b) % (b % (a % b)))

Rat(n, d) ==
  LET g == GCD(Abs(n), Abs(d))
      s == IF d < 0 THEN -1 ELSE 1
  IN  <<(s * n) \div g, (s * d) \div g>>

RInt(n) == <<n, 1>>
RZero == <<0, 1>>
RAdd(a, b) == Rat(a[1] * b[2] + b[1] * a[2], a[2] * b[2])
RSub(a, b) == Rat(a[1] * b[2] - b[1] * a[2], a[2] * b[2])
RMul(a, b) == Rat(a[1] * b[1], a[2] * b[2])
RDiv(a, b) == Rat(a[1] * b[2], a[2] * b[1])
RAbs(a) == <<Abs(a[1]), a[2]>>

\* a/b < c/d for a, c >= 0 and b, d > 0, by whole parts and then the remainders
\* inverted, so that no product is formed
RECURSIVE FracLess(_, _, _, _)
FracLess(a, b, c, d) ==
  IF a \div b # c \div d THEN a \div b < c \div d
  ELSE IF c % d = 0 THEN FALSE
  ELSE IF a % b = 0 THEN TRUE
  ELSE FracLess(d, c % d, b, a % b)

RLt(a, b) ==
  IF a[1] < 0 /\ b[1] >= 0 THEN TRUE
  ELSE IF a[1] >= 0 /\ b[1] < 0 THEN FALSE
  ELSE IF a[1] < 0 THEN FracLess(-b[1], b[2], -a[1], a[2])
  ELSE FracLess(a[1], a[2], b[1], b[2])
RMax(a, b) == IF RLt(a, b) THEN b ELSE a

(***************************************************************************)
(* Long arithmetic for the damped voltage guess of solveMNA, which needs   *)
(* some twenty decimal digits before it meets the tolerance.  A natural is *)
(* a sequence of limbs, lowest first, with no zero limb at the top.        *)
(***************************************************************************)
Base == 100 * 100

RECURSIVE BigTrim(_)
BigTrim(a) ==
  IF a = << >> THEN << >>
  ELSE IF a[Len(a)] = 0 THEN BigTrim(SubSeq(a, 1, Len(a) - 1)) ELSE a

RECURSIVE BigFromNat(_)
BigFromNat(n) == IF n = 0 THEN << >> ELSE <<n % Base>> \o BigFromNat(n \div Base)

RECURSIVE BigAddC(_, _, _)
BigAddC(a, b, c) ==
  IF a = << >> /\ b = << >> THEN (IF c = 0 THEN << >> ELSE <<c>>)
  ELSE LET x == IF a = << >> THEN 0 ELSE Head(a)
           y == IF b = << >> THEN 0 ELSE Head(b)
           s == x + y + c
       IN  <<s % Base>> \o BigAddC(IF a = << >> THEN a ELSE Tail(a),
                                    IF b = << >> THEN b ELSE Tail(b), s \div Base)

BigAdd(a, b) == BigAddC(a, b, 0)

RECURSIVE BigSubB(_, _, _)
BigSubB(a, b, borrow) ==
  IF a = << >> THEN << >>
  ELSE LET y == IF b = << >> THEN 0 ELSE Head(b)
           t == Head(a) - y - borrow
       IN  <<IF t < 0 THEN t + Base ELSE t>>
             \o BigSubB(Tail(a), IF b = << >> THEN b ELSE Tail(b), IF t < 0 THEN 1 ELSE 0)

\* a - b for a >= b
BigSub(a, b) == BigTrim(BigSubB(a, b, 0))

RECURSIVE BigLessAt(_, _, _)
BigLessAt(a, b, i) ==
  IF i = 0 THEN FALSE
  ELSE IF a[i] # b[i] THEN a[i] < b[i] ELSE BigLessAt(a, b, i - 1)

BigLess(a, b) == IF Len(a) # Len(b) THEN Len(a) < Len(b) ELSE BigLessAt(a, b, Len(a))

RECURSIVE BigMulLimb(_, _, _)
BigMulLimb(a, m, c) ==
  IF a = << >> THEN (IF c = 0 THEN << >> ELSE <<c>>)
  ELSE LET t == Head(a) * m + c
       IN  <<t % Base>> \o BigMulLimb(Tail(a), m, t \div Base)

RECURSIVE BigMul(_, _)
BigMul(a, b) ==
  IF a = << >> \/ b = << >> THEN << >>
  ELSE LET rest == BigMul(a, Tail(b))
       IN  BigTrim(BigAdd(BigMulLimb(a, Head(b), 0),
                          IF rest = << >> THEN rest ELSE <<0>> \o rest))

\* <<quotient limbs 1..i, remainder>> of a by a divisor f below 200000
RECURSIVE BigDivAt(_, _, _, _)
BigDivAt(a, f, i, r) ==
  IF i = 0 THEN << << >>, r >>
  ELSE LET cur == r * Base + a[i]
           rest == BigDivAt(a, f, i - 1, cur % f)
       IN  <<Append(rest[1], cur \div f), rest[2]>>

BigDivSmall(a, f) == LET q == BigDivAt(a, f, Len(a), 0) IN <<BigTrim(q[1]), q[2]>>

\* A long rational: sign s (1 or -1), numerator n and denominator d (long naturals).
BR(s, n, d) == [s |-> IF n = << >> THEN 1 ELSE s, n |-> n, d |-> d]

BRFromRat(r) == BR(IF r[1] < 0 THEN -1 ELSE 1, BigFromNat(Abs(r[1])), BigFromNat(r[2]))

\* s1*n1 + s2*n2 as <<sign, magnitude>>
SignedSum(s1, n1, s2, n2) ==
  IF s1 = s2 THEN <<s1, BigAdd(n1, n2)>>
  ELSE IF BigLess(n1, n2) THEN <<s2, BigSub(n2, n1)>>
  ELSE <<s1, BigSub(n1, n2)>>

BRAdd(x, y) ==
  IF x.d = y.d
  THEN LET t == SignedSum(x.s, x.n, y.s, y.n) IN BR(t[1], t[2], x.d)
  ELSE LET t == SignedSum(x.s, BigMul(x.n, y.d), y.s, BigMul(y.n, x.d))
       IN  BR(t[1], t[2], BigMul(x.d, y.d))

BRSub(x, y) == BRAdd(x, BR(-y.s, y.n, y.d))

\* x times the rational r
BRMulRat(x, r) ==
  BR(IF r[1] < 0 THEN -x.s ELSE x.s, BigMul(x.n, BigFromNat(Abs(r[1]))),
     BigMul(x.d, BigFromNat(r[2])))

\* the same value with numerator and denominator divided by f, where f divides both
BRReduce(x, f) ==
  IF f <= 1 \/ f >= 200000 THEN x
  ELSE LET qn == BigDivSmall(x.n, f)
           qd == BigDivSmall(x.d, f)
       IN  IF qn[2] = 0 /\ qd[2] = 0 THEN BR(x.s, qn[1], qd[1]) ELSE x

\* |x| < r for a positive rational r
BRAbsLess(x, r) ==
  BigLess(BigMul(x.n, BigFromNat(r[2])), BigMul(x.d, BigFromNat(r[1])))

\* A data attribute that is not set (deleted, or the empty string).
Absent == << >>

(***************************************************************************)
(* The workspace.  An element of dom is a block (battery, resistor, led,   *)
(* switch) or a wire node.  el is the identity of the DOM element; id is   *)
(* dataset.id (blocks) or dataset.blockId (wire nodes); cid is the         *)
(* dataset.blockId of a block's two connectors, set when the block is      *)
(* created.  A numeric data attribute that is not set is 0; current and    *)
(* voltageDrop are a rational or Absent.                                   *)
(***************************************************************************)
BlockTypes == {"battery", "resistor", "led", "switch"}

NoConn == <<0, "none">>

IsBlock(e) == e.type # "node"

\* createBlockInstance(type): the default data attributes of a new block.
createBlockInstance(type, el, id) ==
  [ el |-> el, id |-> id, cid |-> id, type |-> type,
    voltage |-> IF type = "battery" THEN 5 ELSE 0,
    resistance |-> IF type \in {"resistor", "led"} THEN 100 ELSE 0,
    forwardVoltage |-> 0,
    state |-> IF type = "switch" THEN "on" ELSE "",
    current |-> Absent, voltageDrop |-> Absent, powered |-> FALSE ]

\* createWireNode(x, y): a wire node is itself a connector (class "input").
createWireNode(el, id) ==
  [ el |-> el, id |-> id, cid |-> id, type |-> "node", voltage |-> 0, resistance |-> 0,
    forwardVoltage |-> 0, state |-> "", current |-> Absent,
    voltageDrop |-> Absent, powered |-> FALSE ]

\* b.querySelector('.input.left') and b.querySelector('.input.right')
LeftInput(e) == <<e.el, "L">>
RightInput(e) == <<e.el, "R">>

\* The elements of class "input" an element contributes, in document order.
InputsOf(e) == IF IsBlock(e) THEN <<LeftInput(e), RightInput(e)>> ELSE << <<e.el, "N">> >>

RECURSIVE Flatten(_)
Flatten(ss) == IF ss = << >> THEN << >> ELSE Head(ss) \o Flatten(Tail(ss))

\* workspace.querySelectorAll('.input')
ConnectorList(d) == Flatten([i \in 1..Len(d) |-> InputsOf(d[i])])

\* workspace.querySelectorAll('.block')
Blocks(d) == SelectSeq(d, IsBlock)

\* conn.closest('.block'): the element identity of the owning block, 0 for a wire node.
ClosestBlock(conn) == IF conn[2] \in {"L", "R"} THEN conn[1] ELSE 0

\* cIndex.get(conn): the 0-based index of a connector in the list, -1 for undefined.
cIndex(list, conn) ==
  IF \E i \in 1..Len(list) : list[i] = conn
  THEN (CHOOSE i \in 1..Len(list) : list[i] = conn) - 1
  ELSE -1

(***************************************************************************)
(* Net Builder: union-find over the connector indices.                     *)
(* find(i) returns the root and the parent array after path compression.   *)
(***************************************************************************)
RECURSIVE find(_, _)
find(parent, i) ==
  IF parent[i] = i THEN <<i, parent>>
  ELSE LET r == find(parent, parent[i])
       IN  <<r[1], [r[2] EXCEPT ![i] = r[1]]>>

\* union linking the two indices themselves, not their roots
unionNoFind(parent, i, j) == IF i # j THEN [parent EXCEPT ![j] = i] ELSE parent

union(parent, i, j) ==
  LET fi == find(parent, i)
      fj == find(fi[2], j)
  IN  IF fi[1] # fj[1] THEN [fj[2] EXCEPT ![fj[1]] = fi[1]] ELSE fj[2]

\* connections.forEach(c => { ... if (i!=null && j!=null) union(i,j); })
RECURSIVE UnionWires(_, _, _, _)
UnionWires(parent, list, conns, k) ==
  IF k > Len(conns) THEN parent
  ELSE LET i == cIndex(list, conns[k][1])
           j == cIndex(list, conns[k][2])
       IN  UnionWires(IF i >= 0 /\ j >= 0 THEN union(parent, i, j) ELSE parent,
                      list, conns, k + 1)

\* the roots of the indices 0..n-1 under parent, as a sequence (index i at i + 1)
RECURSIVE Roots(_, _, _)
Roots(parent, i, n) ==
  IF i >= n THEN << >> ELSE <<find(parent, i)[1]>> \o Roots(parent, i + 1, n)

NetIdOver(list, conns) ==
  Bind(UnionWires([i \in 0..(Len(list) - 1) |-> i], list, conns, 1),
       LAMBDA parent : Bind(Roots(parent, 0, Len(list)),
                            LAMBDA roots : [i \in 0..(Len(list) - 1) |-> roots[i + 1]]))

\* const netId = connectorList.map((_,i) => find(i));
netId(d, conns) == Bind(ConnectorList(d), LAMBDA list : NetIdOver(list, conns))

(***************************************************************************)
(* netMap is kept as the sequence of roots in the order netFor first met   *)
(* them: the root at position k has the net number k-1.                    *)
(***************************************************************************)
NetNumber(netMap, r) == (CHOOSE k \in 1..Len(netMap) : netMap[k] = r) - 1

\* netFor taking a fresh number at every call
netForAlwaysNew(netMap, list, nid, conn) ==
  IF cIndex(list, conn) < 0 THEN <<-1, netMap>>
  ELSE <<Len(netMap), Append(netMap, nid[cIndex(list, conn)])>>

\* netFor(conn): <<net number or -1 for null, netMap afterwards>>
netFor(netMap, list, nid, conn) ==
  LET idx == cIndex(list, conn)
  IN  IF idx < 0 THEN <<-1, netMap>>
      ELSE LET r == nid[idx]
               nm == IF \E k \in 1..Len(netMap) : netMap[k] = r
                     THEN netMap ELSE Append(netMap, r)
           IN  <<NetNumber(nm, r), nm>>

\* The opt-in debug flag (let CT_DEBUG = false); only the browser console sets it.
CT_DEBUG == FALSE

\* The debug dump calls netFor on every connector before the stamps are collected.
RECURSIVE DebugNetMap(_, _, _, _)
DebugNetMap(netMap, list, nid, k) ==
  IF k > Len(list) THEN netMap
  ELSE DebugNetMap(netFor(netMap, list, nid, list[k])[2], list, nid, k + 1)

(***************************************************************************)
(* Model Translator of evaluateCircuit: one pass over the blocks.  Every   *)
(* block asks netFor for its left and its right input, whatever its type;  *)
(* resistors and LEDs become resistor stamps, batteries voltage-source     *)
(* stamps; the array `diodes` is never pushed to.  A stamp keeps its block *)
(* as the element identity.                                                *)
(***************************************************************************)
\* Number(b.dataset.resistance)||1e-12: the reset of line 935 leaves a positive
\* resistance on every resistor, so the default is not taken.
ResistorR(b) == IF b.resistance # 0 THEN RInt(b.resistance) ELSE <<1, 1000000 * 1000000>>
\* Number(b.dataset.resistance)||100
LedR(b) == IF b.resistance # 0 THEN RInt(b.resistance) ELSE RInt(100)
\* Number(b.dataset.voltage)||5
BatteryV(b) == IF b.voltage # 0 THEN RInt(b.voltage) ELSE RInt(5)

RECURSIVE CollectStamps(_, _, _, _, _)

StampsNext(blocks, k, list, nid, acc, b, fa, fb) ==
  CollectStamps(blocks, k + 1, list, nid,
    [netMap |-> fb[2],
     resistors |->
       IF b.type = "resistor"
         THEN Append(acc.resistors,
                [n1 |-> fa[1], n2 |-> fb[1], R |-> ResistorR(b), block |-> b.el, led |-> FALSE])
       ELSE IF b.type = "led"
         THEN Append(acc.resistors,
                [n1 |-> fa[1], n2 |-> fb[1], R |-> LedR(b), block |-> b.el, led |-> TRUE])
       ELSE acc.resistors,
     vSources |->
       IF b.type = "battery"
         THEN Append(acc.vSources,
                [nPlus |-> fb[1], nMinus |-> fa[1], V |-> BatteryV(b), block |-> b.el])
       ELSE acc.vSources])

\* const na = netFor(left); const nb = netFor(right);
StampsRight(blocks, k, list, nid, acc, fa) ==
  StampsNext(blocks, k, list, nid, acc, blocks[k], fa,
             netFor(fa[2], list, nid, RightInput(blocks[k])))

CollectStamps(blocks, k, list, nid, acc) ==
  IF k > Len(blocks) THEN acc
  ELSE StampsRight(blocks, k, list, nid, acc,
                   netFor(acc.netMap, list, nid, LeftInput(blocks[k])))

\* The stamps of the blocks over the connector list and the roots nid.
StampsOver(d, list, nid) ==
  CollectStamps(Blocks(d), 1, list, nid,
                [netMap |-> IF CT_DEBUG THEN DebugNetMap(<< >>, list, nid, 1) ELSE << >>,
                 resistors |-> << >>, vSources |-> << >>])

WithNets(m, list, nid) ==
  [netMap |-> m.netMap, resistors |-> m.resistors, vSources |-> m.vSources,
   list |-> list, nid |-> nid]

ModelOver(d, list, nid) == WithNets(StampsOver(d, list, nid), list, nid)

\* Lines 937-974 of evaluateCircuit: nets and stamps of the workspace.
EvalModel(d, conns) ==
  Bind(ConnectorList(d),
       LAMBDA list : Bind(NetIdOver(list, conns), LAMBDA nid : ModelOver(d, list, nid)))

(***************************************************************************)
(* CircuitSolver.solveMNA (the definition that is in force: the second one *)
(* of circuit-solver.js).  Matrices are functions over 0..dim-1.           *)
(***************************************************************************)
\* maxVal < 1e-18, Math.abs(pivot) < 1e-18
BelowPivotThreshold(r) == r[1] = 0

\* partial pivoting: the first row at or below i with the largest |mat[r][i]|
PivotRow(mat, i, dim) ==
  CHOOSE r \in i..(dim - 1) :
    \A r2 \in i..(dim - 1) :
      /\ ~RLt(RAbs(mat[r][i]), RAbs(mat[r2][i]))
      /\ (r2 < r => RLt(RAbs(mat[r2][i]), RAbs(mat[r][i])))

\* A vector over 0..k and a matrix of rows 0..k, with every entry computed.
RECURSIVE Vec(_, _)
Vec(f, k) == IF k = 0 THEN (0 :> f[0]) ELSE Vec(f, k - 1) @@ (k :> f[k])

RECURSIVE Mat(_, _, _)
Mat(m, k, dim) ==
  IF k = 0 THEN (0 :> Vec(m[0], dim - 1)) ELSE Mat(m, k - 1, dim) @@ (k :> Vec(m[k], dim - 1))

RECURSIVE Eliminate(_, _, _, _)
Eliminate(mat, vec, i, dim) ==
  IF i >= dim THEN [ok |-> TRUE, mat |-> mat, vec |-> vec]
  ELSE
    LET maxRow == PivotRow(mat, i, dim)
    IN  IF BelowPivotThreshold(mat[maxRow][i])
        THEN [ok |-> FALSE, mat |-> mat, vec |-> vec]   \* throw new Error('Singular matrix')
        ELSE
          LET m1 == [mat EXCEPT ![i] = mat[maxRow], ![maxRow] = mat[i]]
              v1 == [vec EXCEPT ![i] = vec[maxRow], ![maxRow] = vec[i]]
              pivot == m1[i][i]
              factor(r) == RDiv(m1[r][i], pivot)
              m2 == [r \in 0..(dim - 1) |->
                       IF r > i
                       THEN [c \in 0..(dim - 1) |->
                               IF c >= i THEN RSub(m1[r][c], RMul(factor(r), m1[i][c]))
                               ELSE m1[r][c]]
                       ELSE m1[r]]
              v2 == [r \in 0..(dim - 1) |->
                       IF r > i THEN RSub(v1[r], RMul(factor(r), v1[i])) ELSE v1[r]]
          IN  Eliminate(Mat(m2, dim - 1, dim), Vec(v2, dim - 1), i + 1, dim)

RECURSIVE RowDot(_, _, _, _)
RowDot(row, x, j, dim) ==
  IF j >= dim THEN RZero ELSE RAdd(RMul(row[j], x[j]), RowDot(row, x, j + 1, dim))

RECURSIVE BackSubstitute(_, _, _, _, _)
BackSubstitute(mat, vec, i, x, dim) ==
  IF i < 0 THEN [ok |-> TRUE, x |-> x]
  ELSE IF BelowPivotThreshold(mat[i][i])
       THEN [ok |-> FALSE, x |-> x]   \* throw new Error('Singular pivot during back-substitution')
       ELSE LET s == RSub(vec[i], RowDot(mat[i], x, i + 1, dim))
            IN  BackSubstitute(mat, vec, i - 1, [x EXCEPT ![i] = RDiv(s, mat[i][i])], dim)

\* solveLinear(matrixIn, rhsIn): ok = FALSE stands for the thrown Error.
solveLinear(matrixIn, rhsIn, dim) ==
  IF dim = 0 THEN [ok |-> TRUE, x |-> << >>]
  ELSE LET e == Eliminate(Mat(matrixIn, dim - 1, dim), Vec(rhsIn, dim - 1), 0, dim)
       IN  IF ~e.ok THEN [ok |-> FALSE, x |-> << >>]
           ELSE BackSubstitute(e.mat, e.vec, dim - 1,
                               Vec([k \in 0..(dim - 1) |-> RZero], dim - 1), dim)

\* The resistor loop of one build: stamps the conductances into the matrix.
RECURSIVE StampResistors(_, _, _)
StampResistors(G, rs, k) ==
  IF k > Len(rs) THEN G
  ELSE
    LET r == rs[k]
        g == RDiv(RInt(1), r.R)
        G1 == IF r.n1 < 0 \/ r.n2 < 0 THEN G
              ELSE IF r.n1 # r.n2
                THEN [G EXCEPT ![r.n1][r.n1] = RAdd(@, g), ![r.n2][r.n2] = RAdd(@, g),
                               ![r.n1][r.n2] = RSub(@, g), ![r.n2][r.n1] = RSub(@, g)]
              ELSE [G EXCEPT ![r.n1][r.n1] = RAdd(@, g)]
    IN  StampResistors(G1, rs, k + 1)

\* Bmatrix[vs.nPlus][j] = 1; Bmatrix[vs.nMinus][j] = -1 (the second assignment wins)
Bmatrix(vss, i, j) ==
  IF vss[j + 1].nMinus = i THEN RInt(-1)
  ELSE IF vss[j + 1].nPlus = i THEN RInt(1)
  ELSE RZero

\* The augmented system A, z of one iteration (no diode: currentVec stays 0).
BuildA(numNodes, rs, vss) ==
  LET M == Len(vss)
      dim == numNodes + M
      G == StampResistors([i \in 0..(numNodes - 1) |-> [j \in 0..(numNodes - 1) |-> RZero]], rs, 1)
  IN  [i \in 0..(dim - 1) |-> [j \in 0..(dim - 1) |->
         IF i < numNodes /\ j < numNodes THEN G[i][j]
         ELSE IF i < numNodes THEN Bmatrix(vss, i, j - numNodes)
         ELSE IF j < numNodes THEN Bmatrix(vss, j, i - numNodes)
         ELSE RZero]]

BuildZ(numNodes, vss) ==
  [i \in 0..(numNodes + Len(vss) - 1) |->
     IF i < numNodes THEN RZero ELSE vss[i - numNodes + 1].V]

\* const vUpd = damping * vN + (1-damping) * vOld, the guess kept as a long rational
DampedUpdate(vN, vOld, damping) ==
  LET t1 == RMul(damping, vN)
  IN  BRReduce(BRAdd(BRFromRat(t1), BRMulRat(vOld, RSub(RInt(1), damping))), t1[2])

\* voltageGuess[i] = vUpd for every node i; the guess is the sequence of the
\* node voltages, node i at position i + 1
RECURSIVE DampAll(_, _, _, _)
DampAll(x, voltageGuess, damping, k) ==
  IF k > Len(voltageGuess) THEN << >>
  ELSE <<DampedUpdate(x[k - 1], voltageGuess[k], damping)>>
         \o DampAll(x, voltageGuess, damping, k + 1)

\* new Array(numNodes).fill(0)
RECURSIVE ZeroGuess(_)
ZeroGuess(n) == IF n = 0 THEN << >> ELSE Append(ZeroGuess(n - 1), BRFromRat(RZero))

(***************************************************************************)
(* for (let iter=0; iter<maxIter; iter++) { build; solve; damp; break }    *)
(* The state of the loop: thrown (solveLinear threw), sol (solutionVector, *)
(* << >> for null), iters (the iterations that ran), converged (the loop   *)
(* was left by its break), guess (voltageGuess), done (the loop was left). *)
(* With no diode the system A, z of an iteration does not depend on the    *)
(* voltage guess: every iteration solves the same system, so its solution  *)
(* lin is computed once and handed to each iteration.                      *)
(***************************************************************************)
\* the rest of an iteration once the damped guess upd is known: maxDiff < tol breaks
DampedStep(numNodes, lin, opts, st, upd) ==
  IF \A k \in 1..numNodes : BRAbsLess(BRSub(upd[k], st.guess[k]), opts.tol)
  THEN [st EXCEPT !.sol = lin.x, !.guess = upd, !.iters = @ + 1,
                  !.converged = TRUE, !.done = TRUE]
  ELSE [st EXCEPT !.sol = lin.x, !.guess = upd, !.iters = @ + 1]

\* one iteration of the loop body
LoopBody(numNodes, lin, opts, st) ==
  IF st.done THEN st
  ELSE IF ~lin.ok THEN [st EXCEPT !.thrown = TRUE, !.iters = @ + 1, !.done = TRUE]
  ELSE DampedStep(numNodes, lin, opts, st, DampAll(lin.x, st.guess, opts.damping, 1))

\* a loop whose counter advances once for every two runs of the body
RECURSIVE LoopTimesTwice(_, _, _, _, _)
LoopTimesTwice(numNodes, lin, opts, n, st) ==
  IF n = 0 \/ st.done THEN st
  ELSE IF n = 1 THEN LoopBody(numNodes, lin, opts, LoopBody(numNodes, lin, opts, st))
  ELSE LoopTimesTwice(numNodes, lin, opts, n - (n \div 2),
                      LoopTimesTwice(numNodes, lin, opts, n \div 2, st))

\* n iterations in a row, as two halves one after the other
RECURSIVE LoopTimes(_, _, _, _, _)
LoopTimes(numNodes, lin, opts, n, st) ==
  IF n = 0 \/ st.done THEN st
  ELSE IF n = 1 THEN LoopBody(numNodes, lin, opts, st)
  ELSE LoopTimes(numNodes, lin, opts, n - (n \div 2),
                 LoopTimes(numNodes, lin, opts, n \div 2, st))

\* the loop from iter = 0 to its break, its throw or iter = maxIter
NewtonLoop(numNodes, lin, opts) ==
  IF ~lin.ok
  THEN [thrown |-> TRUE, sol |-> << >>, iters |-> 1, converged |-> FALSE,
        guess |-> << >>, done |-> TRUE]
  ELSE
  LoopTimes(numNodes, lin, opts, opts.maxIter,
            [thrown |-> FALSE, sol |-> << >>, iters |-> 0, converged |-> FALSE,
             guess |-> ZeroGuess(numNodes), done |-> FALSE])

\* options.maxIter || 50, options.tol || 1e-6, (options.damping==null) ? 0.6 : options.damping
OptionsOf(options) ==
  [ maxIter |-> IF options.maxIter = 0 THEN 50 ELSE options.maxIter,
    tol |-> IF options.tol = Absent \/ options.tol[1] = 0 THEN <<1, 1000000>> ELSE options.tol,
    damping |-> IF options.damping = Absent THEN <<3, 5>> ELSE options.damping ]

\* resistorList.map(r => ...): a result has I, v1, v2 and no reference to its stamp
ResistorResult(r, V) ==
  IF r.n1 < 0 \/ r.n2 < 0 THEN [I |-> RZero]
  ELSE [I |-> RDiv(RSub(V[r.n1], V[r.n2]), r.R), v1 |-> V[r.n1], v2 |-> V[r.n2]]

\* What solveMNA returns after the loop `run`: the catch of line 188, the null
\* solutionVector of line 196, or the success record of line 201.
SolveResult(numNodes, resistorList, M, run) ==
  IF run.thrown \/ run.iters = 0
  THEN [ success |-> FALSE,
         reason |-> IF run.thrown THEN "linear-solve-failed" ELSE "",
         V |-> << >>, J |-> << >>, resistorResults |-> << >>, diodeResults |-> << >>,
         iters |-> run.iters, converged |-> run.converged ]
  ELSE [ success |-> TRUE, reason |-> "",
         V |-> [i \in 0..(numNodes - 1) |-> run.sol[i]],
         J |-> [j \in 0..(M - 1) |-> run.sol[numNodes + j]],
         resistorResults |->
           [k \in 1..Len(resistorList) |-> ResistorResult(resistorList[k], run.sol)],
         diodeResults |-> << >>,
         iters |-> run.iters, converged |-> run.converged ]

\* solveMNA(numNodes, resistorList, voltageSourceList, [], options)
solveMNA(numNodes, resistorList, voltageSourceList, options) ==
  SolveResult(numNodes, resistorList, Len(voltageSourceList),
              NewtonLoop(numNodes,
                         solveLinear(BuildA(numNodes, resistorList, voltageSourceList),
                                     BuildZ(numNodes, voltageSourceList),
                                     numNodes + Len(voltageSourceList)),
                         OptionsOf(options)))

(***************************************************************************)
(* fallbackSimplePowering: a breadth-first search over connectors.  The    *)
(* adjacency lists hold the wires in the order of `connections`, then one  *)
(* component edge left-right for every block, the batteries included.      *)
(***************************************************************************)
FallbackEdges(d, conns) ==
  [k \in 1..Len(conns) |-> [a |-> conns[k][1], b |-> conns[k][2], led |-> FALSE]]
  \o [k \in 1..Len(Blocks(d)) |->
        [a |-> LeftInput(Blocks(d)[k]), b |-> RightInput(Blocks(d)[k]),
         led |-> Blocks(d)[k].type = "led"]]

\* adjConn.get(node) || []
RECURSIVE Neighbors(_, _, _)
Neighbors(edges, node, k) ==
  IF k > Len(edges) THEN << >>
  ELSE (IF edges[k].a = node THEN << [node |-> edges[k].b, led |-> edges[k].led] >> ELSE << >>)
       \o (IF edges[k].b = node THEN << [node |-> edges[k].a, led |-> edges[k].led] >> ELSE << >>)
       \o Neighbors(edges, node, k + 1)

\* for (const nb of neighbors) { ... queue.push({ node: next, cameThroughLED: nextCame }) }
RECURSIVE Expand(_, _, _, _, _)
Expand(nbs, k, cameThroughLED, queue, visited) ==
  IF k > Len(nbs) THEN <<queue, visited>>
  ELSE IF nbs[k].node \in visited THEN Expand(nbs, k + 1, cameThroughLED, queue, visited)
  ELSE Expand(nbs, k + 1, cameThroughLED,
              Append(queue, [node |-> nbs[k].node,
                             cameThroughLED |-> cameThroughLED \/ nbs[k].led]),
              visited \cup {nbs[k].node})

\* while (queue.length && !found) { ... }: the value of `found` after the loop
RECURSIVE FallbackSearch(_, _, _, _)
FallbackSearch(queue, visited, edges, neg) ==
  IF queue = << >> THEN FALSE
  ELSE IF Head(queue).node = neg THEN Head(queue).cameThroughLED
  ELSE LET e == Expand(Neighbors(edges, Head(queue).node, 1), 1,
                       Head(queue).cameThroughLED, Tail(queue), visited)
       IN  FallbackSearch(e[1], e[2], edges, neg)

\* dfs(node): the connectors reachable from a set of connectors
RECURSIVE Reachable(_, _)
Reachable(edges, seen) ==
  LET more == {e.b : e \in {x \in {edges[k] : k \in 1..Len(edges)} : x.a \in seen}}
              \cup {e.a : e \in {x \in {edges[k] : k \in 1..Len(edges)} : x.b \in seen}}
  IN  IF more \subseteq seen THEN seen ELSE Reachable(edges, seen \cup more)

\* The body of batteries.forEach for one battery.
FallbackForBattery(d, edges, batt) ==
  LET pos == RightInput(batt)
      neg == LeftInput(batt)
      found == FallbackSearch(<< [node |-> pos, cameThroughLED |-> FALSE] >>, {pos}, edges, neg)
      reachableFromPos == Reachable(edges, {pos})
      reachableToNeg == Reachable(edges, {neg})
      both == reachableFromPos \cap reachableToNeg
      Iest == RDiv(RAbs(BatteryV(batt)), RInt(100))
  IN  IF ~found THEN d
      ELSE [i \in 1..Len(d) |->
              IF d[i].type = "led" /\ LeftInput(d[i]) \in both /\ RightInput(d[i]) \in both
              THEN [d[i] EXCEPT !.powered = TRUE,
                                !.current = IF @ = Absent THEN Iest ELSE @,
                                !.voltageDrop =
                                  IF @ = Absent
                                  THEN RInt(IF d[i].forwardVoltage # 0 THEN d[i].forwardVoltage ELSE 2)
                                  ELSE @]
              ELSE d[i]]

RECURSIVE FallbackBatteries(_, _, _, _)
FallbackBatteries(d, edges, blocks, k) ==
  IF k > Len(blocks) THEN d
  ELSE FallbackBatteries(IF blocks[k].type = "battery"
                         THEN FallbackForBattery(d, edges, blocks[k]) ELSE d,
                         edges, blocks, k + 1)

fallbackSimplePowering(d, conns) ==
  FallbackBatteries(d, FallbackEdges(d, conns), Blocks(d), 1)

(***************************************************************************)
(* evaluateCircuit.  The operator returns the workspace after the call     *)
(* (dom) and the returned record (success, reason), together with what the *)
(* call computed on the way: the connector list, the wires and the roots   *)
(* it read, the net map, the stamps, whether the solver and the fallback   *)
(* ran, and the solver's record.                                           *)
(***************************************************************************)
\* line 935: blocks.forEach(b => { delete ...; defaults; LED powered = 'false' })
ResetBlock(e) ==
  IF ~IsBlock(e) THEN e
  ELSE [e EXCEPT !.current = Absent, !.voltageDrop = Absent,
                 !.voltage = IF e.type = "battery" /\ @ = 0 THEN 5 ELSE @,
                 !.resistance = IF e.type = "resistor" /\ @ = 0 THEN 100 ELSE @,
                 !.forwardVoltage = IF e.type = "led" /\ @ = 0 THEN 2 ELSE @,
                 !.powered = IF e.type = "led" THEN FALSE ELSE @]

\* options = {}: a number that is missing is 0, a missing tol or damping Absent
NoOptions == [maxIter |-> 0, tol |-> Absent, damping |-> Absent]

\* { maxIter: 60, tol: 1e-8, damping: 0.7 }
EvalOptions == [maxIter |-> 60, tol |-> <<1, 100000000>>, damping |-> <<7, 10>>]

\* sol.resistorResults.forEach(rres => { const block = rres.meta && rres.meta.block;
\* if (!block) return; ... }): a result is written only if it carries a meta.block
RECURSIVE AnnotateResistors(_, _, _)
AnnotateResistors(d, results, k) ==
  IF k > Len(results) THEN d
  ELSE AnnotateResistors(
         IF "meta" \in DOMAIN results[k]
         THEN [i \in 1..Len(d) |->
                 IF d[i].el = results[k].meta.block
                 THEN [d[i] EXCEPT !.voltageDrop = RAbs(results[k].Vdrop),
                                   !.current = RAbs(results[k].I)]
                 ELSE d[i]]
         ELSE d,
         results, k + 1)

\* vSources.forEach((vs, idx) => { vs.block.dataset.current = |sol.J[idx]|;
\*                                 vs.block.dataset.voltageDrop = vs.V })
RECURSIVE AnnotateSources(_, _, _, _)
AnnotateSources(d, vss, J, k) ==
  IF k > Len(vss) THEN d
  ELSE AnnotateSources(
         [i \in 1..Len(d) |->
            IF d[i].el = vss[k].block
            THEN [d[i] EXCEPT !.current = RAbs(J[k - 1]), !.voltageDrop = vss[k].V]
            ELSE d[i]],
         vss, J, k + 1)

\* the solver's own reason handed on to the caller
FailureReasonOfSolver(sol) == sol.reason

\* if (!sol || !sol.success) { fallbackSimplePowering(); return { success:false, reason:'solver-failed' }; }
FailureReason(sol) == "solver-failed"

NoSol == [success |-> FALSE, reason |-> "", iters |-> 0, converged |-> FALSE,
          V |-> << >>, J |-> << >>, I |-> << >>]

\* what is kept of a solver result: I holds the I of each of its resistorResults
SolSummary(sol) == [success |-> sol.success, reason |-> sol.reason, iters |-> sol.iters,
                    converged |-> sol.converged, V |-> sol.V, J |-> sol.J,
                    I |-> [k \in 1..Len(sol.resistorResults) |-> sol.resistorResults[k].I]]

\* lines 1010-1140, after a successful solve: the passes over diodeResults and over
\* `diodes` (lines 1023-1048 and 1057-1137) have nothing to visit, since `diodes` is
\* never pushed to and the path heuristic marks only edges of type 'led', which come
\* from `diodes`
EvalAnnotate(base, sol) ==
  [base EXCEPT !.dom = AnnotateSources(AnnotateResistors(base.dom, sol.resistorResults, 1),
                                       base.vSources, sol.J, 1),
               !.success = TRUE, !.solved = TRUE, !.sol = SolSummary(sol)]

\* a failed solve returned without the fallback powering
EvalSolvedNoFallback(base, sol) ==
  IF ~sol.success
  THEN [base EXCEPT !.solved = TRUE, !.sol = SolSummary(sol), !.reason = "solver-failed"]
  ELSE EvalAnnotate(base, sol)

\* lines 1007-1008
EvalSolved(base, sol) ==
  IF ~sol.success
  THEN [base EXCEPT !.dom = fallbackSimplePowering(base.dom, base.conns),
                    !.fallbackRan = TRUE, !.solved = TRUE,
                    !.sol = SolSummary(sol), !.reason = FailureReason(sol)]
  ELSE EvalAnnotate(base, sol)

\* lines 982-1008
EvalBranches(base, loaded) ==
  IF base.N = 0 THEN [base EXCEPT !.reason = "no-nets"]
  ELSE IF ~loaded
    THEN [base EXCEPT !.dom = fallbackSimplePowering(base.dom, base.conns),
                      !.fallbackRan = TRUE, !.reason = "no-solver"]
  ELSE EvalSolved(base, solveMNA(base.N, base.resistors, base.vSources, EvalOptions))

EvalBase(d1, conns, m) ==
  [ fn |-> "evaluateCircuit", dom |-> d1, success |-> FALSE, reason |-> "",
    N |-> Len(m.netMap), list |-> m.list, conns |-> conns, nid |-> m.nid,
    netMap |-> m.netMap, resistors |-> m.resistors, vSources |-> m.vSources,
    solved |-> FALSE, fallbackRan |-> FALSE, sol |-> NoSol, options |-> EvalOptions ]

\* lines 937-1140 on the workspace d1 that the reset of line 935 leaves
EvalReset(d1, conns, loaded) == EvalBranches(EvalBase(d1, conns, EvalModel(d1, conns)), loaded)

evaluateCircuit(d0, conns, loaded) ==
  EvalReset(<< >> \o [i \in 1..Len(d0) |-> ResetBlock(d0[i])], conns, loaded)

(***************************************************************************)
(* buildCircuitModel: the nets of the Net Builder again, and one stamp per *)
(* block.  A switch is a resistor of 1e-6 ohm when on and 1e12 ohm when    *)
(* off.  The second value is beyond the integers of TLC: it is written     *)
(* OpenR, and the basic solver's arithmetic says below what it does with   *)
(* it.  The workspaces here hold at most one switch, in series with the    *)
(* other components of its path.                                           *)
(* A stamp carries, besides the block, the data attributes that the basic  *)
(* solver reads through it: id and forwardVoltage.  led stands for the     *)
(* stamp's meta: {type:'led'}.                                             *)
(***************************************************************************)
\* Number(b.dataset.resistance)||1e-12
BasicResistorR(b) == IF b.resistance # 0 THEN RInt(b.resistance) ELSE <<1, 1000000 * 1000000>>

\* 1e12
OpenR == <<1, 0>>

\* R: isOn ? 1e-6 : 1e12
SwitchR(b) == IF b.state # "off" THEN <<1, 1000000>> ELSE OpenR

RECURSIVE CollectBasicStamps(_, _, _, _, _)

BasicStampsNext(blocks, k, list, nid, acc, b, fa, fb) ==
  CollectBasicStamps(blocks, k + 1, list, nid,
    [netMap |-> fb[2],
     resistors |->
       IF b.type = "resistor"
         THEN Append(acc.resistors,
                [n1 |-> fa[1], n2 |-> fb[1], R |-> BasicResistorR(b), block |-> b.el,
                 led |-> FALSE, id |-> b.id, forwardVoltage |-> b.forwardVoltage])
       ELSE IF b.type = "switch"
         THEN Append(acc.resistors,
                [n1 |-> fa[1], n2 |-> fb[1], R |-> SwitchR(b), block |-> b.el,
                 led |-> FALSE, id |-> b.id, forwardVoltage |-> b.forwardVoltage])
       ELSE IF b.type = "led"
         THEN Append(acc.resistors,
                [n1 |-> fa[1], n2 |-> fb[1], R |-> LedR(b), block |-> b.el,
                 led |-> TRUE, id |-> b.id, forwardVoltage |-> b.forwardVoltage])
       ELSE acc.resistors,
     vSources |->
       IF b.type = "battery"
         THEN Append(acc.vSources,
                [nPlus |-> fb[1], nMinus |-> fa[1], V |-> BatteryV(b), block |-> b.el])
       ELSE acc.vSources])

BasicStampsRight(blocks, k, list, nid, acc, fa) ==
  BasicStampsNext(blocks, k, list, nid, acc, blocks[k], fa,
                  netFor(fa[2], list, nid, RightInput(blocks[k])))

CollectBasicStamps(blocks, k, list, nid, acc) ==
  IF k > Len(blocks) THEN acc
  ELSE BasicStampsRight(blocks, k, list, nid, acc,
                        netFor(acc.netMap, list, nid, LeftInput(blocks[k])))

BasicModelOver(d, list, nid) ==
  WithNets(CollectBasicStamps(Blocks(d), 1, list, nid,
                              [netMap |-> << >>, resistors |-> << >>, vSources |-> << >>]),
           list, nid)

buildCircuitModel(d, conns) ==
  Bind(ConnectorList(d),
       LAMBDA list : Bind(NetIdOver(list, conns), LAMBDA nid : BasicModelOver(d, list, nid)))

(***************************************************************************)
(* SimpleSolver, as the second assignment to window.SimpleSolver defines   *)
(* it (the first is overwritten when the script has run).                  *)
(***************************************************************************)
MaxPaths == 20

\* a + b over the least common denominator
RSum(a, b) ==
  LET g == GCD(a[2], b[2])
  IN  Rat(a[1] * (b[2] \div g) + b[1] * (a[2] \div g), (a[2] \div g) * b[2])

\* Number(x.toFixed(6)) of a rational x >= 0: six decimals, the seventh rounded;
\* the whole part is set aside and the six decimals are those of the remainder
\* st = <<digits to go, remainder, digits so far>> of a long division by d
RECURSIVE FixDigits(_, _)
FixDigits(st, d) ==
  IF st[1] = 0 THEN st
  ELSE FixDigits(<<st[1] - 1, (st[2] * 10) % d, st[3] * 10 + ((st[2] * 10) \div d)>>, d)

FixRound(st, d) ==
  IF 2 * st[2] >= d THEN Rat(st[3] + 1, 1000000) ELSE Rat(st[3], 1000000)

ToFixed6(x) ==
  RSum(RInt(x[1] \div x[2]), FixRound(FixDigits(<<6, x[1] % x[2], 0>>, x[2]), x[2]))

\* the edges that addAdj is called with: the resistors, then the sources
BasicEdges(model) ==
  [k \in 1..Len(model.resistors) |->
     [a |-> model.resistors[k].n1, b |-> model.resistors[k].n2,
      type |-> IF model.resistors[k].led THEN "led" ELSE "resistor",
      idx |-> k - 1, meta |-> model.resistors[k]]]
  \o [k \in 1..Len(model.vSources) |->
     [a |-> model.vSources[k].nPlus, b |-> model.vSources[k].nMinus,
      type |-> "battery", idx |-> k - 1, meta |-> model.vSources[k]]]

\* adj.get(node) || []
RECURSIVE AdjList(_, _, _)
AdjList(edges, node, k) ==
  IF k > Len(edges) THEN << >>
  ELSE (IF edges[k].a = node
        THEN << [to |-> edges[k].b, type |-> edges[k].type, idx |-> edges[k].idx,
                 meta |-> edges[k].meta] >>
        ELSE << >>)
       \o (IF edges[k].b = node
           THEN << [to |-> edges[k].a, type |-> edges[k].type, idx |-> edges[k].idx,
                    meta |-> edges[k].meta] >>
           ELSE << >>)
       \o AdjList(edges, node, k + 1)

\* adj as a sequence: the list of net n is at position n + 1
RECURSIVE AdjFrom(_, _, _)
AdjFrom(edges, n, numNets) ==
  IF n >= numNets THEN << >>
  ELSE <<AdjList(edges, n, 1)>> \o AdjFrom(edges, n + 1, numNets)

Adjacency(model) == AdjFrom(BasicEdges(model), 0, Len(model.netMap))

\* edges.some(e => e && (e.type === 'resistor' || e.type === 'led'))
hasComponent(edges) ==
  \E i \in 1..Len(edges) : edges[i] \in {"resistor", "led"}

RECURSIVE dfs(_, _, _, _, _, _)
RECURSIVE DfsNeighbors(_, _, _, _, _, _, _, _)

\* if (current === eKey) { ... paths.push({nets, edges}) }
DfsFound(eKey, current, path, edges, st) ==
  IF current = eKey /\ hasComponent(edges)
  THEN [st EXCEPT !.paths = Append(@, [nets |-> path, edges |-> edges])]
  ELSE st

\* visited.set(to, visited.get(to) - 1)
DfsBack(to, st) == [st EXCEPT !.visited[to] = @ - 1]

\* for (const {to, meta} of neighbors) { ... }
DfsNeighbors(adj, eKey, current, path, edges, nbs, k, st) ==
  IF k > Len(nbs) THEN st
  ELSE IF st.visited[nbs[k].to] >= 2
    THEN DfsNeighbors(adj, eKey, current, path, edges, nbs, k + 1, st)
  ELSE DfsNeighbors(adj, eKey, current, path, edges, nbs, k + 1,
         DfsBack(nbs[k].to,
                 dfs(adj, eKey, nbs[k].to, Append(path, nbs[k].to),
                     Append(edges, nbs[k].type),
                     [st EXCEPT !.visited[nbs[k].to] = @ + 1])))

\* dfs without its first line, if (paths.length >= maxPaths) return
dfsWithoutLimit(adj, eKey, current, path, edges, st) ==
  DfsNeighbors(adj, eKey, current, path, edges, adj[current + 1], 1,
               DfsFound(eKey, current, path, edges, st))

dfs(adj, eKey, current, path, edges, st) ==
  IF Len(st.paths) >= MaxPaths THEN st
  ELSE DfsNeighbors(adj, eKey, current, path, edges, adj[current + 1], 1,
                    DfsFound(eKey, current, path, edges, st))

\* findAllPaths(start, end, excludeBattery, adj): the net sequences of the paths
findAllPaths(start, end, adj) ==
  dfs(adj, end, start, <<start>>, <<"null">>,
      [paths |-> << >>,
       visited |-> [n \in 0..(Len(adj) - 1) |-> IF n = start THEN 1 ELSE 0]]).paths

\* neighbors.filter(nbr => nbr.to === b), then the filter on resistor and led
ComponentMatches(adj, a, b) ==
  SelectSeq(adj[a + 1], LAMBDA nbr : nbr.to = b /\ nbr.type \in {"resistor", "led"})

\* Gsum += 1 / Rv over the regular resistors of a hop
RECURSIVE Gsum(_, _)
Gsum(comp, k) ==
  IF k > Len(comp) THEN RZero
  ELSE IF comp[k].type = "resistor"
    THEN RAdd(RDiv(RInt(1), comp[k].meta.R), Gsum(comp, k + 1))
  ELSE Gsum(comp, k + 1)

ParallelR(g) == IF RLt(RZero, g) THEN RDiv(RInt(1), g) ELSE RZero

\* what one hop adds to Rsum
HopR(comp) ==
  IF Len(comp) = 1 THEN (IF comp[1].type = "led" THEN RInt(10) ELSE comp[1].meta.R)
  ELSE IF Len(comp) > 1 THEN ParallelR(Gsum(comp, 1))
  ELSE RZero

\* Rsum += ...: a sum with 1e12 in it is kept as OpenR
RECURSIVE PathRsum(_, _, _)
PathRsum(adj, nets, i) ==
  IF i > Len(nets) THEN RZero
  ELSE LET hop == HopR(ComponentMatches(adj, nets[i - 1], nets[i]))
           rest == PathRsum(adj, nets, i + 1)
       IN  IF hop = OpenR \/ rest = OpenR THEN OpenR ELSE RSum(hop, rest)

\* if (Rsum <= 0) Rsum = DEFAULT_R; I = Number((Math.abs(Vb) / Rsum).toFixed(6)).
\* With 1e12 in Rsum the quotient is below 5e-7 for every |Vb| below 500000, and
\* toFixed(6) makes it 0.
PathCurrent(Vb, Rsum) ==
  IF Rsum = OpenR THEN RZero
  ELSE ToFixed6(RDiv(RAbs(Vb), IF RLt(RZero, Rsum) THEN Rsum ELSE RInt(10)))

\* Number((I * R).toFixed(6)); for a fraction R the product is taken in millionths
\* first, which keeps the numbers small
DropOver(I, R) ==
  IF I = RZero THEN RZero
  ELSE IF R[2] = 1 THEN ToFixed6(RMul(I, R))
  ELSE LET m == RMul(I, RMul(R, RInt(1000000)))
       IN  Rat((2 * m[1] + m[2]) \div (2 * m[2]), 1000000)

\* (block.dataset.forwardVoltage) || 2
LedVf(stamp) == RInt(IF stamp.forwardVoltage # 0 THEN stamp.forwardVoltage ELSE 2)

NumLeds(comp) == Len(SelectSeq(comp, LAMBDA m : m.type = "led"))

\* the results pushed for a hop with more than one component: the regular resistors
\* first, then the LEDs
RECURSIVE ParallelResults(_, _, _, _, _)
ParallelResults(comp, I, g, wantLed, k) ==
  IF k > Len(comp) THEN << >>
  ELSE (IF comp[k].type = "resistor" /\ ~wantLed
        THEN << [meta |-> comp[k].meta, idx |-> comp[k].idx,
                 I |-> ToFixed6(RDiv(RMul(I, RDiv(RInt(1), comp[k].meta.R)), g)),
                 Vdrop |-> ToFixed6(RMul(I, ParallelR(g)))] >>
        ELSE IF comp[k].type = "led" /\ wantLed
        THEN << [meta |-> comp[k].meta, idx |-> comp[k].idx,
                 I |-> ToFixed6(RDiv(I, RInt(NumLeds(comp)))),
                 Vdrop |-> ToFixed6(LedVf(comp[k].meta))] >>
        ELSE << >>)
       \o ParallelResults(comp, I, g, wantLed, k + 1)

\* regularResistors.forEach(...) has nothing to visit when Gsum is 0
ParallelHop(comp, I, g) ==
  IF RLt(RZero, g)
  THEN ParallelResults(comp, I, g, FALSE, 1) \o ParallelResults(comp, I, g, TRUE, 1)
  ELSE ParallelResults(comp, I, g, TRUE, 1)

\* the results pushed for one hop of a path
HopResults(comp, I) ==
  IF Len(comp) = 1
  THEN << [meta |-> comp[1].meta, idx |-> comp[1].idx, I |-> I,
           Vdrop |-> IF comp[1].type = "led" THEN ToFixed6(LedVf(comp[1].meta))
                     ELSE DropOver(I, comp[1].meta.R)] >>
  ELSE IF Len(comp) > 1 THEN ParallelHop(comp, I, Gsum(comp, 1))
  ELSE << >>

RECURSIVE PathHops(_, _, _, _)
PathHops(adj, nets, I, i) ==
  IF i > Len(nets) THEN << >>
  ELSE HopResults(ComponentMatches(adj, nets[i - 1], nets[i]), I)
       \o PathHops(adj, nets, I, i + 1)

\* the results pushed for one path
PathResults(adj, Vb, p) ==
  IF Len(p.nets) < 2 THEN << >>
  ELSE Bind(PathCurrent(Vb, PathRsum(adj, p.nets, 2)),
            LAMBDA I : PathHops(adj, p.nets, I, 2))

\* paths.forEach(p => { ... }) over the paths lo..hi, the lower half first
RECURSIVE PathsResults(_, _, _, _, _)
PathsResults(adj, Vb, paths, lo, hi) ==
  IF lo > hi THEN << >>
  ELSE IF lo = hi THEN PathResults(adj, Vb, paths[lo])
  ELSE PathsResults(adj, Vb, paths, lo, (lo + hi) \div 2)
       \o PathsResults(adj, Vb, paths, ((lo + hi) \div 2) + 1, hi)

SourceResults(adj, Vb, paths) == PathsResults(adj, Vb, paths, 1, Len(paths))

\* vSources.forEach(vs => { ... })
RECURSIVE SourcesResults(_, _, _)
SourcesResults(adj, vss, k) ==
  IF k > Len(vss) THEN << >>
  ELSE SourceResults(adj, vss[k].V, findAllPaths(vss[k].nPlus, vss[k].nMinus, adj))
       \o SourcesResults(adj, vss, k + 1)

\* rrMap.set(key, r) with key = block.dataset.id: a key keeps the place of its first
\* result and the value of its last
\* the positions at which a key is set for the first time
FirstSets(results) ==
  {k \in 1..Len(results) :
     \A j \in 1..(k - 1) : results[j].meta.id # results[k].meta.id}

\* the position of the last result with the key of position k
LastSet(results, k) ==
  CHOOSE m \in k..Len(results) :
    /\ results[m].meta.id = results[k].meta.id
    /\ \A j \in (m + 1)..Len(results) : results[j].meta.id # results[k].meta.id

\* Array.from(rrMap.values())
ValuesOf(results, firsts) ==
  [i \in 1..Cardinality(firsts) |->
     results[LastSet(results,
                     CHOOSE k \in firsts : Cardinality({j \in firsts : j < k}) = i - 1)]]

Deduplicate(results) == ValuesOf(results, FirstSets(results))

\* some path of a source has a hop with more than one component on it
ParallelHopOnAPath(adj, vss) ==
  \E k \in 1..Len(vss) :
     \E paths \in {findAllPaths(vss[k].nPlus, vss[k].nMinus, adj)} :
        \E p \in 1..Len(paths) :
           \E i \in 2..Len(paths[p].nets) :
              Len(ComponentMatches(adj, paths[p].nets[i - 1], paths[p].nets[i])) > 1

\* a simulate whose branch for parallel components throws, which its catch turns
\* into the failure record
simulateParallelThrows(model) ==
  IF ParallelHopOnAPath(Adjacency(model), model.vSources)
  THEN [ success |-> FALSE, reason |-> "exception",
         resistorResults |-> << >>, diodeResults |-> << >> ]
  ELSE [ success |-> TRUE, reason |-> "",
         resistorResults |->
           Deduplicate(SourcesResults(Adjacency(model), model.vSources, 1)),
         diodeResults |-> << >> ]

\* SimpleSolver.simulate(model): nothing in the try block throws on a model of
\* buildCircuitModel, so the failure record of the catch is never returned
simulate(model) ==
  [ success |-> TRUE, reason |-> "",
    resistorResults |->
      Deduplicate(SourcesResults(Adjacency(model), model.vSources, 1)),
    diodeResults |-> << >> ]

(***************************************************************************)
(* applyBasicResults and runBasicOnce.                                     *)
(***************************************************************************)
\* meta.type === 'led', where meta is the stamp: the stamp has no `type`
StampIsLed(meta) == "type" \in DOMAIN meta /\ meta.type = "led"

\* a pass that writes a current only where none is shown and removes one that is
RECURSIVE ApplyResistorResultsOnce(_, _, _)
ApplyResistorResultsOnce(d, results, k) ==
  IF k > Len(results) THEN d
  ELSE ApplyResistorResultsOnce(
         [i \in 1..Len(d) |->
            IF d[i].el = results[k].meta.block
            THEN [d[i] EXCEPT !.current = IF @ = Absent THEN RAbs(results[k].I) ELSE Absent,
                              !.voltageDrop = RAbs(results[k].Vdrop)]
            ELSE d[i]],
         results, k + 1)

\* results.resistorResults.forEach(rr => { ... })
RECURSIVE ApplyResistorResults(_, _, _)
ApplyResistorResults(d, results, k) ==
  IF k > Len(results) THEN d
  ELSE ApplyResistorResults(
         [i \in 1..Len(d) |->
            IF d[i].el = results[k].meta.block
            THEN [d[i] EXCEPT !.current = RAbs(results[k].I),
                              !.voltageDrop = RAbs(results[k].Vdrop),
                              !.powered = IF StampIsLed(results[k].meta)
                                          THEN RLt(<<1, 1000000>>, RAbs(results[k].I))
                                          ELSE @]
            ELSE d[i]],
         results, k + 1)

\* Number(lb.dataset.x) || 0
NumberOr0(x) == IF x = Absent THEN RZero ELSE x

\* the additional pass over the LED blocks of the workspace
LedPass(lb, I, Vd, Vf) ==
  IF RLt(<<1, 1000000>>, I) \/ ~RLt(Vd, Vf)
  THEN [lb EXCEPT !.powered = TRUE,
                  !.current = IF NumberOr0(@) = RZero THEN RMax(I, <<1, 1000000>>) ELSE @,
                  !.voltageDrop = IF NumberOr0(@) = RZero THEN RMax(Vd, Vf) ELSE @]
  ELSE [lb EXCEPT !.powered = FALSE]

AdditionalPass(d) ==
  [i \in 1..Len(d) |->
     IF d[i].type = "led"
     THEN LedPass(d[i], RAbs(NumberOr0(d[i].current)), RAbs(NumberOr0(d[i].voltageDrop)),
                  RInt(IF d[i].forwardVoltage # 0 THEN d[i].forwardVoltage ELSE 2))
     ELSE d[i]]

applyBasicResults(d, results) ==
  AdditionalPass(ApplyResistorResults(d, results.resistorResults, 1))

\* runBasicOnce() on the model m, once simulate was called and returned res or was
\* not called: the workspace afterwards and what was returned.
\* if (res && res.success) { applyBasicResults(res); } else { banner }
BasicRunWith(d, m, called, res) ==
  [ dom |-> IF called /\ res.success THEN applyBasicResults(d, res) ELSE d,
    called |-> called,
    ran |-> called /\ res.success,
    reason |-> IF Len(m.netMap) = 0 THEN "no-nets"
               ELSE IF ~called THEN "not-loaded"
               ELSE IF ~res.success THEN res.reason ELSE "",
    list |-> m.list, nid |-> m.nid, netMap |-> m.netMap,
    resistors |-> m.resistors, vSources |-> m.vSources ]

BasicRun(d, m, loaded) ==
  IF Len(m.netMap) # 0 /\ loaded
  THEN Bind(simulate(m), LAMBDA res : BasicRunWith(d, m, TRUE, res))
  ELSE BasicRunWith(d, m, FALSE, [success |-> FALSE])

runBasicOnce(d, conns, loaded) == BasicRun(d, buildCircuitModel(d, conns), loaded)

(***************************************************************************)
(* The handlers.  A handler that ends in evaluateCircuit() stores the      *)
(* annotated workspace and records the call in lastEval.                   *)
(***************************************************************************)
NoEval ==
  [ fn |-> "none", dom |-> << >>, success |-> FALSE, reason |-> "", N |-> 0, list |-> << >>,
    conns |-> << >>, nid |-> << >>, netMap |-> << >>, resistors |-> << >>,
    vSources |-> << >>, solved |-> FALSE, fallbackRan |-> FALSE, sol |-> NoSol,
    options |-> NoOptions ]

\* an element as it was drawn: identity, kind and settings, without the annotations
Drawn(e) ==
  [el |-> e.el, type |-> e.type, voltage |-> e.voltage, resistance |-> e.resistance,
   state |-> e.state]

\* the record kept of a call: the workspace the call worked on is kept as drawn, its
\* annotations are in `dom` itself
Recorded(ev) == [ev EXCEPT !.dom = [i \in 1..Len(ev.dom) |-> Drawn(ev.dom[i])]]

NumBlocks(d) == Len(Blocks(d))
NumNodes(d) == Len(d) - Len(Blocks(d))

loadVars == <<solverLoaded, simpleSolver>>
simVars == <<isSimRunning, simInterval, simTimers, isBasicSimRunning, basicSimInterval>>
idVars == <<nextEl, blockIdCounter, wireNodeCounter>>
fileVars == <<undoStack, importing, detached>>

\* A drag from the palette: mousedown on a palette entry creates the block
\* (createBlockInstance), mouseup drops it.  Dropped inside the workspace it is
\* appended and the circuit evaluated; dropped outside it is discarded.
PaletteDragInto(type, inside, room) ==
  /\ ~isSimRunning
  /\ blockIdCounter <= MaxCreated
  /\ NumBlocks(dom) < room
  /\ nextEl' = nextEl + 1
  /\ blockIdCounter' = blockIdCounter + 1
  /\ IF inside
     THEN \E ev \in {evaluateCircuit(
                          Append(dom, createBlockInstance(type, nextEl, blockIdCounter)),
                          connections, solverLoaded)} :
            dom' = ev.dom /\ lastEval' = Recorded(ev)
     ELSE UNCHANGED <<dom, lastEval>>
  /\ UNCHANGED <<connections, selectedConnector, wireNodeCounter, loadVars, simVars, fileVars>>

PaletteDrag(type, inside) == PaletteDragInto(type, inside, MaxBlocks)

\* the test for duplicates looking at the wires drawn in the same direction only
AlreadyJoinedSameWay(conns, conn1, conn2) ==
  \E k \in 1..Len(conns) : conns[k][1] = conn1 /\ conns[k][2] = conn2

\* for (const c of connections) { if (... both orders ...) return; }
AlreadyJoined(conns, conn1, conn2) ==
  \E k \in 1..Len(conns) :
     \/ (conns[k][1] = conn1 /\ conns[k][2] = conn2)
     \/ (conns[k][1] = conn2 /\ conns[k][2] = conn1)

\* createWire without its tests for one connector given twice and for two
\* connectors of one block
WireRefusedDuplicateOnly(conns, conn1, conn2) ==
  \/ isSimRunning
  \/ \E k \in 1..Len(conns) :
       \/ (conns[k][1] = conn1 /\ conns[k][2] = conn2)
       \/ (conns[k][1] = conn2 /\ conns[k][2] = conn1)

\* createWire(conn1, conn2): the guards that refuse the wire
WireRefused(conns, conn1, conn2) ==
  \/ isSimRunning
  \/ conn1 = conn2
  \/ (ClosestBlock(conn1) # 0 /\ ClosestBlock(conn1) = ClosestBlock(conn2))
  \/ AlreadyJoined(conns, conn1, conn2)

\* createWire on the workspace d: the wire is pushed and the circuit evaluated
createWire(d, conn1, conn2) ==
  IF WireRefused(connections, conn1, conn2)
  THEN /\ dom' = d
       /\ UNCHANGED <<connections, lastEval>>
  ELSE /\ Len(connections) < MaxWires
       /\ connections' = Append(connections, <<conn1, conn2>>)
       /\ \E ev \in {evaluateCircuit(d, connections', solverLoaded)} :
              dom' = ev.dom /\ lastEval' = Recorded(ev)

\* handleConnectorClick(e, connector)
handleConnectorClick(connector) ==
  /\ \E i \in 1..Len(ConnectorList(dom)) : ConnectorList(dom)[i] = connector
  /\ IF isSimRunning THEN UNCHANGED <<dom, connections, selectedConnector, lastEval>>
     ELSE IF selectedConnector = NoConn
       THEN selectedConnector' = connector /\ UNCHANGED <<dom, connections, lastEval>>
     ELSE IF selectedConnector = connector
          \/ (ClosestBlock(connector) # 0
              /\ ClosestBlock(selectedConnector) = ClosestBlock(connector))
       THEN selectedConnector' = NoConn /\ UNCHANGED <<dom, connections, lastEval>>
     ELSE /\ createWire(dom, selectedConnector, connector)
          /\ selectedConnector' = NoConn
  /\ UNCHANGED <<idVars, loadVars, simVars, fileVars>>

\* workspace contextmenu: a wire node is created, wired to the selected connector
\* and selected in its place
WorkspaceContextMenu ==
  /\ selectedConnector # NoConn
  /\ NumNodes(dom) < MaxNodes
  /\ LET node == createWireNode(nextEl, wireNodeCounter)
     IN  /\ createWire(Append(dom, node), selectedConnector, <<node.el, "N">>)
         /\ selectedConnector' = <<node.el, "N">>
  /\ nextEl' = nextEl + 1
  /\ wireNodeCounter' = wireNodeCounter + 1
  /\ UNCHANGED <<blockIdCounter, loadVars, simVars, fileVars>>

\* the wires that stay when a block goes: neither end is a connector of the block
WiresWithout(conns, el) ==
  SelectSeq(conns, LAMBDA c : ClosestBlock(c[1]) # el /\ ClosestBlock(c[2]) # el)

\* removeBlockAndConnections(block), from the context menu or a drag out of the workspace
removeBlockAndConnections(el) ==
  /\ \E i \in 1..Len(dom) : dom[i].el = el /\ IsBlock(dom[i])
  /\ IF isSimRunning THEN UNCHANGED <<dom, connections, selectedConnector, lastEval>>
     ELSE /\ selectedConnector' =
               IF selectedConnector # NoConn /\ ClosestBlock(selectedConnector) = el
               THEN NoConn ELSE selectedConnector
          /\ connections' = WiresWithout(connections, el)
          /\ \E ev \in {evaluateCircuit(SelectSeq(dom, LAMBDA e : e.el # el),
                                       connections', solverLoaded)} :
                 dom' = ev.dom /\ lastEval' = Recorded(ev)
  /\ UNCHANGED <<idVars, loadVars, simVars, fileVars>>

\* the hover timer of a block, the end of a block move inside the workspace, the end
\* of a wire-node drag: each calls evaluateCircuit() and changes nothing else
HoverTimer ==
  /\ dom # << >>
  /\ \E ev \in {evaluateCircuit(dom, connections, solverLoaded)} :
         dom' = ev.dom /\ lastEval' = Recorded(ev)
  /\ UNCHANGED <<connections, selectedConnector, idVars, loadVars, simVars, fileVars>>

\* the click handler of a switch block: the state flips, and the circuit is evaluated
\* only while a simulation runs
SwitchClick(el) ==
  /\ \E i \in 1..Len(dom) : dom[i].el = el /\ dom[i].type = "switch"
  /\ LET d1 == [i \in 1..Len(dom) |->
                  IF dom[i].el = el
                  THEN [dom[i] EXCEPT !.state = IF @ = "on" THEN "off" ELSE "on"]
                  ELSE dom[i]]
     IN  IF isBasicSimRunning \/ isSimRunning
         THEN \E ev \in {evaluateCircuit(d1, connections, solverLoaded)} :
                  dom' = ev.dom /\ lastEval' = Recorded(ev)
         ELSE dom' = d1 /\ UNCHANGED lastEval
  /\ UNCHANGED <<connections, selectedConnector, idVars, loadVars, simVars, fileVars>>

\* startSimulation(button): an immediate evaluation, then one every 600 ms
startSimulation ==
  /\ ~isSimRunning
  /\ simTimers < MaxTimers
  /\ isSimRunning' = TRUE
  /\ \E ev \in {evaluateCircuit(dom, connections, solverLoaded)} :
         dom' = ev.dom /\ lastEval' = Recorded(ev)
  /\ simInterval' = TRUE
  /\ simTimers' = simTimers + 1
  /\ UNCHANGED <<isBasicSimRunning, basicSimInterval>>

\* stopSimulation(button): clearInterval(simInterval) clears the timer set last
stopSimulation ==
  /\ isSimRunning
  /\ isSimRunning' = FALSE
  /\ simInterval' = FALSE
  /\ simTimers' = IF simInterval THEN simTimers - 1 ELSE simTimers
  /\ UNCHANGED <<dom, lastEval, isBasicSimRunning, basicSimInterval>>

\* the click handler of #sim-run; the click then reaches the document's handler,
\* which clears the selected connector (the target is not a connector)
SimButtonClick ==
  /\ (startSimulation \/ stopSimulation)
  /\ selectedConnector' = NoConn
  /\ UNCHANGED <<connections, idVars, loadVars, fileVars>>

\* the callback of the interval set by startSimulation
SimTick ==
  /\ simTimers > 0
  /\ \E ev \in {evaluateCircuit(dom, connections, solverLoaded)} :
         dom' = ev.dom /\ lastEval' = Recorded(ev)
  /\ UNCHANGED <<connections, selectedConnector, idVars, loadVars, simVars, fileVars>>

\* what a run of the basic solver leaves in lastEval
BasicRecorded(run) ==
  [NoEval EXCEPT !.fn = "runBasicOnce", !.success = run.ran, !.reason = run.reason,
                 !.solved = run.called,
                 !.dom = [i \in 1..Len(run.dom) |-> Drawn(run.dom[i])],
                 !.N = Len(run.netMap), !.list = run.list, !.conns = connections,
                 !.nid = run.nid, !.netMap = run.netMap]

\* startBasicSimulation(button): the script is requested if it is missing, the
\* solver is run at once and then every 700 ms
startBasicSimulation ==
  /\ ~isBasicSimRunning
  /\ isBasicSimRunning' = TRUE
  /\ isSimRunning' = TRUE
  /\ simpleSolver' = IF simpleSolver = "no" THEN "loading" ELSE simpleSolver
  /\ \E run \in {runBasicOnce(dom, connections, simpleSolver = "yes")} :
         dom' = run.dom /\ lastEval' = BasicRecorded(run)
  /\ basicSimInterval' = TRUE

\* stopBasicSimulation(button)
stopBasicSimulation ==
  /\ isBasicSimRunning
  /\ isBasicSimRunning' = FALSE
  /\ isSimRunning' = FALSE
  /\ basicSimInterval' = FALSE
  /\ UNCHANGED <<dom, lastEval, simpleSolver>>

\* the click handler of #sim-basic, and the document's handler after it
BasicButtonClick ==
  /\ (startBasicSimulation \/ stopBasicSimulation)
  /\ selectedConnector' = NoConn
  /\ UNCHANGED <<connections, idVars, solverLoaded, simInterval, simTimers, fileVars>>

\* the callback of the interval set by startBasicSimulation
BasicTick ==
  /\ basicSimInterval
  /\ \E run \in {runBasicOnce(dom, connections, simpleSolver = "yes")} :
         dom' = run.dom /\ lastEval' = BasicRecorded(run)
  /\ UNCHANGED <<connections, selectedConnector, idVars, loadVars, simVars, fileVars>>

\* simple-solver.js has run: window.SimpleSolver is what its second assignment sets
SimpleSolverLoaded ==
  /\ simpleSolver = "loading"
  /\ simpleSolver' = "yes"
  /\ UNCHANGED <<dom, connections, selectedConnector, idVars, solverLoaded, simVars, lastEval, fileVars>>

(***************************************************************************)
(* Undo and import.  A snapshot (pushUndo) and a circuit file (exportCircuit)*)
(* hold the blocks, then the wire nodes, and each wire as the blockId and   *)
(* terminal of its two connectors.  An id is kept with its prefix: "b" for  *)
(* a block, "node" for a wire node.                                         *)
(***************************************************************************)
\* if (undoStack.length > 50) undoStack.shift()
UndoLimit == 50

\* dataset.id of a block, dataset.blockId of a wire node
IdKey(e) == <<IF IsBlock(e) THEN "b" ELSE "node", e.id>>

\* conn.dataset.blockId: of the element in the workspace the connector belongs to, or
\* of the detached block it belongs to
BlockIdOf(d, conn) ==
  IF \E i \in 1..Len(d) : d[i].el = conn[1]
  THEN LET e == d[CHOOSE i \in 1..Len(d) : d[i].el = conn[1]]
       IN  <<IF IsBlock(e) THEN "b" ELSE "node", e.cid>>
  ELSE <<"b", (CHOOSE e \in detached : e.el = conn[1]).cid>>

\* the snapshot pushUndo takes, which is also what exportCircuit returns
Snapshot(d, conns) ==
  [ blocks |-> Blocks(d) \o SelectSeq(d, LAMBDA e : ~IsBlock(e)),
    conns |-> [k \in 1..Len(conns) |->
                 <<BlockIdOf(d, conns[k][1]), conns[k][1][2],
                   BlockIdOf(d, conns[k][2]), conns[k][2][2]>>] ]

\* pushUndo()
pushUndo(stack, snap) ==
  IF Len(stack) + 1 > UndoLimit THEN Tail(Append(stack, snap)) ELSE Append(stack, snap)

\* snap.blocks.forEach / data.blocks.forEach: entry k becomes a new element.  A wire
\* node is made by createWireNode and given the saved id; a block is made by
\* createBlockInstance, which gives its connectors the next _blockIdCounter, and is
\* then given the saved id and the saved data attributes.
RECURSIVE Recreate(_, _, _, _)
Recreate(entries, k, el, bid) ==
  IF k > Len(entries) THEN << >>
  ELSE IF IsBlock(entries[k])
    THEN <<[entries[k] EXCEPT !.el = el, !.cid = bid]>> \o Recreate(entries, k + 1, el + 1, bid + 1)
    ELSE <<createWireNode(el, entries[k].id)>> \o Recreate(entries, k + 1, el + 1, bid)

\* the connector a saved end resolves to, NoConn for none: the first element with
\* the saved id (undo looks among the blocks only, import among blocks and wire
\* nodes); a wire node is the connector itself, a block gives its .input.<terminal>
Resolve(d, key, terminal, nodesToo) ==
  LET S == {i \in 1..Len(d) : IdKey(d[i]) = key /\ (nodesToo \/ IsBlock(d[i]))}
  IN  IF S = {} THEN NoConn
      ELSE LET e == d[CHOOSE i \in S : \A j \in S : i <= j]
           IN  IF ~IsBlock(e) THEN <<e.el, "N">>
               ELSE IF terminal \in {"L", "R"} THEN <<e.el, terminal>>
               ELSE NoConn

\* snap.conns.forEach / data.conns.forEach: createWire for the ends that resolve
RECURSIVE Rewire(_, _, _, _, _)
Rewire(d, saved, k, conns, nodesToo) ==
  IF k > Len(saved) THEN conns
  ELSE LET c1 == Resolve(d, saved[k][1], saved[k][2], nodesToo)
           c2 == Resolve(d, saved[k][3], saved[k][4], nodesToo)
       IN  Rewire(d, saved, k + 1,
                  IF c1 = NoConn \/ c2 = NoConn \/ WireRefused(conns, c1, c2)
                  THEN conns ELSE Append(conns, <<c1, c2>>),
                  nodesToo)

\* What undo() and importCircuit(data) share: the wires are dropped and the blocks
\* removed (the wire nodes stay), the saved elements are recreated, the saved wires
\* drawn again by createWire, and evaluateCircuit() ends the handler.
Restore(entries, saved, nodesToo) ==
  /\ nextEl + Len(entries) - 1 <= MaxEl
  /\ LET d1 == SelectSeq(dom, LAMBDA e : ~IsBlock(e))
                 \o Recreate(entries, 1, nextEl, blockIdCounter)
     IN  /\ connections' = Rewire(d1, saved, 1, << >>, nodesToo)
         /\ \E ev \in {evaluateCircuit(d1, connections', solverLoaded)} :
                dom' = ev.dom /\ lastEval' = Recorded(ev)
  /\ nextEl' = nextEl + Len(entries)
  /\ blockIdCounter' = blockIdCounter + Len(Blocks(entries))
  /\ wireNodeCounter' = wireNodeCounter + (Len(entries) - Len(Blocks(entries)))

\* the click handler of #undo-btn and of #undo-top: undo(), then the document's
\* click handler clears the selected connector
Undo ==
  /\ IF undoStack = << >>
     THEN UNCHANGED <<dom, connections, lastEval, idVars, undoStack>>
     ELSE /\ Restore(undoStack[Len(undoStack)].blocks, undoStack[Len(undoStack)].conns, FALSE)
          /\ undoStack' = SubSeq(undoStack, 1, Len(undoStack) - 1)
  /\ selectedConnector' = NoConn
  /\ UNCHANGED <<loadVars, simVars, importing, detached>>

\* The Save button of the properties panel of block el (the panel is filled when
\* the block is clicked): pushUndo(), the value typed becomes the voltage of a
\* battery or the resistance of a resistor, evaluateCircuit(); the click then clears
\* the selected connector.
PropSave(el, value) ==
  /\ \E i \in 1..Len(dom) : dom[i].el = el /\ IsBlock(dom[i])
  /\ Len(undoStack) < MaxUndo
  /\ undoStack' = pushUndo(undoStack, Snapshot(dom, connections))
  /\ \E ev \in {evaluateCircuit(
                  [i \in 1..Len(dom) |->
                     IF dom[i].el # el THEN dom[i]
                     ELSE IF dom[i].type = "battery" THEN [dom[i] EXCEPT !.voltage = value]
                     ELSE IF dom[i].type = "resistor" THEN [dom[i] EXCEPT !.resistance = value]
                     ELSE dom[i]],
                  connections, solverLoaded)} :
         dom' = ev.dom /\ lastEval' = Recorded(ev)
  /\ selectedConnector' = NoConn
  /\ UNCHANGED <<connections, idVars, loadVars, simVars, importing, detached>>

\* Circuit files.  The one file here holds a battery and a wire node with a good
\* wire between them, a wire between the two terminals of the battery, a wire from
\* the node to itself, a wire to a block that is not in the file, and the good wire
\* once more with its ends exchanged.
Files ==
  << [ blocks |-> <<createBlockInstance("battery", 0, 2), createWireNode(0, 1)>>,
       conns |-> << << <<"b", 2>>, "R", <<"node", 1>>, "N" >>,
                    << <<"b", 2>>, "L", <<"b", 2>>, "R" >>,
                    << <<"node", 1>>, "N", <<"node", 1>>, "N" >>,
                    << <<"b", 2>>, "L", <<"b", 7>>, "L" >>,
                    << <<"node", 1>>, "N", <<"b", 2>>, "R" >> >> ] >>

\* The Load button and loadFile.onchange: the click clears the selected connector,
\* and a FileReader starts to read the chosen file.
ImportChosen(k) ==
  /\ importing = 0
  /\ importing' = k
  /\ selectedConnector' = NoConn
  /\ UNCHANGED <<dom, connections, idVars, loadVars, simVars, undoStack, detached, lastEval>>

\* the reader's onload: importCircuit(JSON.parse(...)).  selectedConnector is left
\* as it is; the block it belongs to is out of the workspace from now on.
ImportLoaded ==
  /\ importing # 0
  /\ Restore(Files[importing].blocks, Files[importing].conns, TRUE)
  /\ importing' = 0
  /\ detached' = detached \cup
       {[el |-> dom[i].el, cid |-> dom[i].cid] :
          i \in {j \in 1..Len(dom) : IsBlock(dom[j]) /\ dom[j].el = selectedConnector[1]}}
  /\ UNCHANGED <<selectedConnector, loadVars, simVars, undoStack>>

(***************************************************************************)
(* The editor: the page after load, with an empty workspace.  The solver   *)
(* script either loaded or did not.                                        *)
(***************************************************************************)
Init ==
  /\ dom = << >>
  /\ connections = << >>
  /\ selectedConnector = NoConn
  /\ nextEl = 1
  /\ blockIdCounter = 1
  /\ wireNodeCounter = 1
  /\ solverLoaded \in BOOLEAN
  /\ simpleSolver = "no"
  /\ isSimRunning = FALSE
  /\ simInterval = FALSE
  /\ simTimers = 0
  /\ isBasicSimRunning = FALSE
  /\ basicSimInterval = FALSE
  /\ undoStack = << >>
  /\ importing = 0
  /\ detached = {}
  /\ lastEval = NoEval

Connectors == {<<el, t>> : el \in 1..(MaxCreated + MaxNodes), t \in {"L", "R", "N"}}

Next ==
  \/ \E type \in BlockTypes, inside \in BOOLEAN : PaletteDrag(type, inside)
  \/ \E connector \in Connectors : handleConnectorClick(connector)
  \/ WorkspaceContextMenu
  \/ \E el \in 1..(MaxCreated + MaxNodes) : removeBlockAndConnections(el)
  \/ HoverTimer
  \/ \E el \in 1..(MaxCreated + MaxNodes) : SwitchClick(el)
  \/ SimButtonClick
  \/ SimTick

Spec == Init /\ [][Next]_vars

(***************************************************************************)
(* The editor with its file and undo buttons: circuits come from files,    *)
(* are rewired by hand, edited in the properties panel and undone.         *)
(***************************************************************************)
PropValues == {220}

NextFile ==
  \/ \E k \in 1..Len(Files) : ImportChosen(k)
  \/ ImportLoaded
  \/ \E el \in 1..MaxEl, t \in {"L", "R", "N"} : handleConnectorClick(<<el, t>>)
  \/ \E el \in 1..MaxEl : removeBlockAndConnections(el)
  \/ \E el \in 1..MaxEl, value \in PropValues : PropSave(el, value)
  \/ Undo
  \/ PaletteDragInto("resistor", TRUE, MaxFileBlocks)

SpecFile == Init /\ [][NextFile]_vars

(***************************************************************************)
(* The bench: the editor holding one of a family of circuits, as it is     *)
(* after the circuit has been drawn (blocks dropped in order, the 220 ohm  *)
(* set in the properties panel, wires clicked in order; the last of these  *)
(* steps ends in evaluateCircuit).  The circuits are then hovered,         *)
(* simulated with either solver, switched, and taken apart block by block. *)
(***************************************************************************)
Block(type, el) == createBlockInstance(type, el, el)

\* the properties panel: dataset.resistance = value
WithResistance(b, r) == [b EXCEPT !.resistance = r]

Wire(el1, t1, el2, t2) == << <<el1, t1>>, <<el2, t2>> >>

\* 5 V battery and one 100 ohm resistor in a loop
LoopCircuit ==
  [ dom |-> <<Block("battery", 1), Block("resistor", 2)>>,
    conns |-> <<Wire(1, "R", 2, "L"), Wire(2, "R", 1, "L")>> ]

\* two 100 ohm resistors in parallel across the battery
ParallelCircuit ==
  [ dom |-> <<Block("battery", 1), Block("resistor", 2), Block("resistor", 3)>>,
    conns |-> <<Wire(1, "R", 2, "L"), Wire(1, "R", 3, "L"),
                Wire(2, "R", 1, "L"), Wire(3, "R", 1, "L")>> ]

\* battery +, 220 ohm, LED anode (left) to cathode (right), battery -
LedForwardCircuit ==
  [ dom |-> <<Block("battery", 1), WithResistance(Block("resistor", 2), 220), Block("led", 3)>>,
    conns |-> <<Wire(1, "R", 2, "L"), Wire(2, "R", 3, "L"), Wire(3, "R", 1, "L")>> ]

\* the same with the LED turned round
LedReversedCircuit ==
  [ dom |-> <<Block("battery", 1), WithResistance(Block("resistor", 2), 220), Block("led", 3)>>,
    conns |-> <<Wire(1, "R", 2, "L"), Wire(2, "R", 3, "R"), Wire(3, "L", 1, "L")>> ]

\* the loop, and a second resistor with both ends on the battery's minus
GroundedCircuit ==
  [ dom |-> <<Block("battery", 1), Block("resistor", 2), Block("resistor", 3)>>,
    conns |-> <<Wire(1, "R", 2, "L"), Wire(2, "R", 1, "L"),
                Wire(3, "L", 1, "L"), Wire(3, "R", 1, "L")>> ]

\* a single wire: most connectors are on their own
OpenCircuit ==
  [ dom |-> <<Block("battery", 1), Block("resistor", 2), Block("led", 3)>>,
    conns |-> <<Wire(1, "R", 2, "L")>> ]

\* the loop with a wire node, the wires of the plus side closing a cycle
CyclicCircuit ==
  [ dom |-> <<Block("battery", 1), Block("resistor", 2), createWireNode(3, 1)>>,
    conns |-> <<Wire(1, "R", 3, "N"), Wire(3, "N", 2, "L"), Wire(2, "L", 1, "R"),
                Wire(2, "R", 1, "L")>> ]

\* components and no wire at all
UnwiredCircuit ==
  [ dom |-> <<Block("battery", 1), Block("led", 2)>>, conns |-> << >> ]

\* battery +, switch (on when dropped), 10 ohm, LED forward, battery -
SwitchCircuit ==
  [ dom |-> <<Block("battery", 1), Block("switch", 2),
              WithResistance(Block("resistor", 3), 10), Block("led", 4)>>,
    conns |-> <<Wire(1, "R", 2, "L"), Wire(2, "R", 3, "L"), Wire(3, "R", 4, "L"),
                Wire(4, "R", 1, "L")>> ]

Benchmarks ==
  <<LoopCircuit, ParallelCircuit, LedForwardCircuit, LedReversedCircuit,
    GroundedCircuit, OpenCircuit, CyclicCircuit, UnwiredCircuit, SwitchCircuit>>

InitBench ==
  /\ solverLoaded \in BOOLEAN
  /\ simpleSolver \in {"no", "yes"}
  /\ \E k \in 1..Len(Benchmarks) :
       /\ connections = Benchmarks[k].conns
       /\ \E ev \in {evaluateCircuit(Benchmarks[k].dom, Benchmarks[k].conns, solverLoaded)} :
            dom = ev.dom /\ lastEval = Recorded(ev)
       /\ nextEl = Len(Benchmarks[k].dom) + 1
       /\ blockIdCounter = NumBlocks(Benchmarks[k].dom) + 1
       /\ wireNodeCounter = NumNodes(Benchmarks[k].dom) + 1
  /\ selectedConnector = NoConn
  /\ isSimRunning = FALSE
  /\ simInterval = FALSE
  /\ simTimers = 0
  /\ isBasicSimRunning = FALSE
  /\ basicSimInterval = FALSE
  /\ undoStack = << >>
  /\ importing = 0
  /\ detached = {}

BenchEls == 1..4

NextBench ==
  \/ HoverTimer
  \/ SimButtonClick
  \/ SimTick
  \/ BasicButtonClick
  \/ BasicTick
  \/ SimpleSolverLoaded
  \/ \E el \in BenchEls : removeBlockAndConnections(el)
  \/ \E el \in BenchEls : SwitchClick(el)

SpecBench == InitBench /\ [][NextBench]_vars

(***************************************************************************)
(* The solver on its own: CircuitSolver.solveMNA is a global of the page,  *)
(* and a caller chooses the options.  The nets and stamps handed over are  *)
(* those of the workspace, as evaluateCircuit builds them; the workspace   *)
(* is one of the bench, whole or with blocks taken out.                    *)
(***************************************************************************)
MaxIterChoices == {0, 2, 18}
TolChoices == {Absent, <<1, 100000000>>}
DampingChoices == {Absent, <<7, 10>>}

\* what a call of the solver leaves in lastEval
SolverRecorded(m, options, sol) ==
  [NoEval EXCEPT !.fn = "solveMNA", !.success = sol.success, !.reason = sol.reason,
                 !.N = Len(m.netMap), !.list = m.list, !.conns = connections,
                 !.nid = m.nid, !.netMap = m.netMap, !.resistors = m.resistors,
                 !.vSources = m.vSources, !.solved = TRUE, !.sol = SolSummary(sol),
                 !.options = options]

\* CircuitSolver.solveMNA(N, resistors, vSources, [], options) on the nets of m
SolveModel(m, options) ==
  SolverRecorded(m, options, solveMNA(Len(m.netMap), m.resistors, m.vSources, options))

\* a call of the solver from outside evaluateCircuit
SolverCall(options) ==
  /\ solverLoaded
  /\ dom # << >>
  /\ lastEval' = SolveModel(EvalModel(dom, connections), options)
  /\ UNCHANGED <<dom, connections, selectedConnector, idVars, loadVars, simVars, fileVars>>

\* the stamps with reference `side` of stamp k set to null (a negative number here)
Nulled(stamps, k, side) ==
  [i \in 1..Len(stamps) |-> IF i = k THEN [stamps[i] EXCEPT ![side] = -1] ELSE stamps[i]]

\* a call of the solver with one net reference of one stamp null
SolverCallNull(k, side) ==
  /\ solverLoaded
  /\ dom # << >>
  /\ LET m == EvalModel(dom, connections)
     IN  IF side \in {"n1", "n2"}
         THEN /\ k <= Len(m.resistors)
              /\ lastEval' = SolveModel([m EXCEPT !.resistors = Nulled(@, k, side)], EvalOptions)
         ELSE /\ k <= Len(m.vSources)
              /\ lastEval' = SolveModel([m EXCEPT !.vSources = Nulled(@, k, side)], EvalOptions)
  /\ UNCHANGED <<dom, connections, selectedConnector, idVars, loadVars, simVars, fileVars>>

NextMNA ==
  \/ \E maxIter \in MaxIterChoices, tol \in TolChoices, damping \in DampingChoices :
       SolverCall([maxIter |-> maxIter, tol |-> tol, damping |-> damping])
  \/ \E k \in 1..2, side \in {"n1", "n2", "nPlus", "nMinus"} : SolverCallNull(k, side)
  \/ \E el \in BenchEls : removeBlockAndConnections(el)

SpecMNA == InitBench /\ [][NextMNA]_vars

(***************************************************************************)
(* Properties of the net builder.                                          *)
(***************************************************************************)
\* the connectors that a path of wires joins to one of `set`
RECURSIVE WireClosure(_, _)
WireClosure(conns, set) ==
  LET more == set \cup {conns[k][2] : k \in {h \in 1..Len(conns) : conns[h][1] \in set}}
                  \cup {conns[k][1] : k \in {h \in 1..Len(conns) : conns[h][2] \in set}}
  IN  IF more = set THEN set ELSE WireClosure(conns, more)

\* the last call built nets: evaluateCircuit or buildCircuitModel ran
NetsBuilt == lastEval.fn \in {"evaluateCircuit", "runBasicOnce"}

Evaluated == lastEval.fn = "evaluateCircuit"

\* the connectors of the last call that are terminals of a block
BlockTerminals == {lastEval.list[i] : i \in {h \in 1..Len(lastEval.list) :
                                               ClosestBlock(lastEval.list[h]) # 0}}

\* the connectors of the last call joined by wires to a terminal of a block (or one)
OnABlock == {lastEval.list[i] : i \in {h \in 1..Len(lastEval.list) :
               WireClosure(lastEval.conns, {lastEval.list[h]}) \cap BlockTerminals # {}}}

\* the net numbers that netMap holds for the root of connector c: one, or none
NumbersOf(c) ==
  {k - 1 : k \in {h \in 1..Len(lastEval.netMap) :
                    lastEval.netMap[h] = lastEval.nid[cIndex(lastEval.list, c)]}}

\* the net numbers the stamps refer to
StampRefs ==
  {lastEval.resistors[k].n1 : k \in 1..Len(lastEval.resistors)}
    \cup {lastEval.resistors[k].n2 : k \in 1..Len(lastEval.resistors)}
    \cup {lastEval.vSources[k].nPlus : k \in 1..Len(lastEval.vSources)}
    \cup {lastEval.vSources[k].nMinus : k \in 1..Len(lastEval.vSources)}

\* N is the number of nets, no net is numbered twice, the numbers are 0..N-1 and
\* the stamps refer to these
DenseNumbering ==
  /\ lastEval.N = Len(lastEval.netMap)
  /\ lastEval.N = Cardinality({WireClosure(lastEval.conns, {c}) : c \in BlockTerminals})
  /\ UNION {NumbersOf(c) : c \in OnABlock} = 0..(lastEval.N - 1)
  /\ StampRefs \subseteq 0..(lastEval.N - 1)

Holds(c) ==
  /\ connections = c.conns
  /\ Len(dom) = Len(c.dom)
  /\ \A i \in 1..Len(dom) :
       /\ dom[i].el = c.dom[i].el
       /\ dom[i].type = c.dom[i].type
       /\ dom[i].resistance = c.dom[i].resistance

\* the basic solver ran to its end in the last call
BasicRan == lastEval.fn = "runBasicOnce" /\ lastEval.success

\* the element of the workspace with identity el
Element(el) == dom[CHOOSE i \in 1..Len(dom) : dom[i].el = el]

\* a data attribute x is set and within eps of target
Near(x, target, eps) == x # Absent /\ RLt(RAbs(RSub(x, target)), eps)

\* C3: evaluating a workspace that holds components and no wire returns the record
\* with reason no-nets and leaves every LED's powered flag false.
C3_UnwiredIsNoNets ==
  (Evaluated /\ Blocks(dom) # << >> /\ lastEval.conns = << >>) =>
    /\ ~lastEval.success
    /\ lastEval.reason = "no-nets"
    /\ \A i \in 1..Len(dom) : dom[i].type = "led" => ~dom[i].powered

\* C4: for the loop of a 5 V battery and a 100 ohm resistor, evaluation with the
\* solver at hand solves the network and leaves 0.05 A and 5 V (within 1e-4) on
\* the resistor.
C4_LoopSolved ==
  (Evaluated /\ solverLoaded /\ Holds(LoopCircuit)) =>
    /\ lastEval.success
    /\ Near(Element(2).current, <<1, 20>>, <<1, 10000>>)
    /\ Near(Element(2).voltageDrop, RInt(5), <<1, 10000>>)

\* C5: for two 100 ohm resistors in parallel across a 5 V battery, evaluation
\* leaves 0.05 A on each resistor and a source current of 0.1 A on the battery;
\* a run of the basic solver leaves 0.05 A on each resistor.
C5_ParallelSplit ==
  /\ (Evaluated /\ solverLoaded /\ Holds(ParallelCircuit)) =>
       /\ lastEval.success
       /\ Near(Element(2).current, <<1, 20>>, <<1, 10000>>)
       /\ Near(Element(3).current, <<1, 20>>, <<1, 10000>>)
       /\ Near(Element(1).current, <<1, 10>>, <<1, 10000>>)
  /\ (BasicRan /\ Holds(ParallelCircuit)) =>
       /\ Near(Element(2).current, <<1, 20>>, <<1, 10000>>)
       /\ Near(Element(3).current, <<1, 20>>, <<1, 10000>>)

\* C6: for the loop of a 5 V battery, a 220 ohm resistor and an LED of forward
\* voltage 2 V in the conducting direction, evaluation marks the LED powered with
\* an LED current above 1e-6 A and leaves about (5-2)/220 A on the resistor.
C6_ForwardLedLit ==
  (Evaluated /\ solverLoaded /\ Holds(LedForwardCircuit)) =>
    /\ Element(3).powered
    /\ Element(3).current # Absent /\ RLt(<<1, 1000000>>, Element(3).current)
    /\ Near(Element(2).current, <<3, 220>>, <<1, 1000>>)

\* C7: with the LED of that loop turned round, the LED is left not powered and
\* with a current that is absent or below 1e-6 A, whether evaluateCircuit (solver
\* or fallback powering) or the basic solver made the annotation.
C7_ReversedLedDark ==
  ((Evaluated \/ BasicRan) /\ Holds(LedReversedCircuit)) =>
    /\ ~Element(3).powered
    /\ (Element(3).current = Absent \/ RLt(Element(3).current, <<1, 1000000>>))

(***************************************************************************)
(* Properties of the result record and of the failures of the solver.      *)
(***************************************************************************)
\* C8: every call of evaluateCircuit returns a record that is success, or a failure
\* with exactly one of the reasons no-nets, no-solver, solver-failed: no-nets when
\* there is no net, no-solver when the solver is missing, solver-failed when the
\* solver returned a failure (a linear solve that threw included), success when it
\* returned a solution.  No failure of the solver reaches the caller in another form.
C8_ResultRecord ==
  Evaluated =>
    /\ lastEval.success <=> lastEval.reason = ""
    /\ lastEval.reason \in {"", "no-nets", "no-solver", "solver-failed"}
    /\ lastEval.reason = "no-nets" <=> lastEval.N = 0
    /\ lastEval.reason = "no-solver" <=> (lastEval.N # 0 /\ ~solverLoaded)
    /\ lastEval.reason = "solver-failed" <=> (lastEval.solved /\ ~lastEval.sol.success)
    /\ lastEval.success <=> (lastEval.solved /\ lastEval.sol.success)

\* an evaluation that ended in success
C8_Witness == Evaluated /\ lastEval.success /\ lastEval.N = 1 /\ lastEval.sol.converged

\* the linear system of the last evaluation has a pivot below the threshold
PivotFails ==
  ~solveLinear(BuildA(lastEval.N, lastEval.resistors, lastEval.vSources),
               BuildZ(lastEval.N, lastEval.vSources),
               lastEval.N + Len(lastEval.vSources)).ok

\* C9: when Gaussian elimination meets a pivot below the threshold, solveMNA returns
\* the failure record of its catch (in the iteration that threw, the first), and
\* evaluateCircuit runs the fallback powering and returns reason solver-failed.
C9_SingularFallsBack ==
  (Evaluated /\ lastEval.solved /\ PivotFails) =>
    /\ ~lastEval.sol.success
    /\ lastEval.sol.reason = "linear-solve-failed"
    /\ lastEval.sol.iters = 1
    /\ lastEval.fallbackRan
    /\ ~lastEval.success
    /\ lastEval.reason = "solver-failed"
    /\ \A i \in 1..Len(dom) : IsBlock(dom[i]) => dom[i].current = Absent

\* an evaluation handed a battery's singular system to the solver
C9_Witness ==
  /\ Evaluated /\ lastEval.solved /\ PivotFails
  /\ Len(lastEval.vSources) = 1
  /\ lastEval.fallbackRan

\* the loop of the last solver call ran to its cap and never met maxDiff < tol
CapReached ==
  /\ lastEval.fn = "solveMNA"
  /\ lastEval.sol.iters = OptionsOf(lastEval.options).maxIter
  /\ ~lastEval.sol.converged

\* C10: when the loop reaches its iteration cap without the largest change of a node
\* voltage falling below the tolerance, the solver reports failure.
C10_CapIsFailure == CapReached => ~lastEval.sol.success

(***************************************************************************)
(* Termination of the solver.                                              *)
(***************************************************************************)
\* C11: every call of solveMNA returns after at most maxIter iterations of its loop
\* (60 when evaluateCircuit calls it, 50 when the caller gives none), whether the
\* loop converged, threw or ran out.
C11_LoopBounded ==
  /\ lastEval.solved => lastEval.sol.iters <= OptionsOf(lastEval.options).maxIter
  /\ (Evaluated /\ lastEval.solved) => lastEval.sol.iters <= 60

\* a call that did not converge and was stopped by the cap, and returned
C11_Witness ==
  /\ CapReached
  /\ lastEval.options.maxIter = 2
  /\ lastEval.sol.success

(***************************************************************************)
(* Evaluating twice.                                                       *)
(***************************************************************************)
\* evaluateCircuit() on the state as it is returns the record of the last call and
\* leaves every block as it is
EvalFixpoint ==
  LET ev == evaluateCircuit(dom, connections, solverLoaded)
  IN  ev.dom = dom /\ Recorded(ev) = lastEval

\* the same for runBasicOnce()
BasicFixpoint ==
  LET run == runBasicOnce(dom, connections, simpleSolver = "yes")
  IN  run.dom = dom /\ BasicRecorded(run) = lastEval

\* the last run of the basic solver met the solver script as it is now
BasicFresh == ~(lastEval.reason = "not-loaded" /\ simpleSolver = "yes")

\* no component, wire or property has changed since the last call
NothingChanged ==
  /\ lastEval.dom = [i \in 1..Len(dom) |-> Drawn(dom[i])]
  /\ lastEval.conns = connections

HasNullRef(st) ==
  IF "n1" \in DOMAIN st THEN st.n1 < 0 \/ st.n2 < 0 ELSE st.nPlus < 0 \/ st.nMinus < 0

\* no wire of the workspace ends on connector c
Unwired(c) == \A k \in 1..Len(connections) : connections[k][1] # c /\ connections[k][2] # c

\* C13: the solver given a resistor or voltage-source stamp with a null net
\* reference returns, and in a result it reports current 0 for that stamp; an
\* evaluation of a workspace in which a component has an unwired terminal returns
\* and leaves that component with no current or current 0.
C13_NullStampHasNoCurrent ==
  /\ (lastEval.fn = "solveMNA" /\ lastEval.sol.success) =>
        /\ \A k \in 1..Len(lastEval.resistors) :
              HasNullRef(lastEval.resistors[k]) => lastEval.sol.I[k] = RZero
        /\ \A j \in 1..Len(lastEval.vSources) :
              HasNullRef(lastEval.vSources[j]) => lastEval.sol.J[j - 1] = RZero
  /\ Evaluated =>
        \A i \in 1..Len(dom) :
          (IsBlock(dom[i]) /\ (Unwired(LeftInput(dom[i])) \/ Unwired(RightInput(dom[i]))))
            => dom[i].current \in {Absent, RZero}

(***************************************************************************)
(* The two solvers side by side.                                           *)
(***************************************************************************)
\* the workspace holds batteries and resistors only, at least one of each, and
\* every terminal has a wire
ResistiveNetwork ==
  /\ \A i \in 1..Len(dom) : dom[i].type \in {"battery", "resistor"}
  /\ \E i \in 1..Len(dom) : dom[i].type = "battery"
  /\ \E i \in 1..Len(dom) : dom[i].type = "resistor"
  /\ \A i \in 1..Len(dom) : ~Unwired(LeftInput(dom[i])) /\ ~Unwired(RightInput(dom[i]))

\* a and b differ by at most 5 percent of the larger
Within5Percent(a, b) ==
  ~RLt(RMax(RAbs(a), RAbs(b)), RMul(RInt(20), RAbs(RSub(a, b))))

\* C14: on a network of batteries and resistors the current the MNA solver reports
\* for a resistor and the current the path solver reports for it agree within 5
\* percent.  The path solver's currents are those its run left on the resistors; the
\* MNA solver is run on the same workspace, and the comparison is made where it
\* reports a solution.
C14_SolversAgree ==
  (BasicRan /\ ResistiveNetwork) =>
     LET mna == SolveModel(EvalModel(dom, connections), EvalOptions)
     IN  mna.sol.success =>
           \A k \in 1..Len(mna.resistors) :
              Within5Percent(mna.sol.I[k],
                             NumberOr0(Element(mna.resistors[k].block).current))

(***************************************************************************)
(* Switches.                                                               *)
(***************************************************************************)
\* the stamps hold a resistor for block b: at most a milliohm when the switch is
\* on, at least a megohm when it is off
SwitchStamp(stamps, b) ==
  \E k \in 1..Len(stamps) :
     /\ stamps[k].block = b.el
     /\ IF b.state # "off"
        THEN ~RLt(<<1, 1000>>, stamps[k].R)
        ELSE (stamps[k].R = OpenR \/ ~RLt(stamps[k].R, RInt(1000000)))

\* C15: every switch of the workspace is translated into a resistor stamp of the
\* list handed to the solver, with a resistance near zero when the switch is on and
\* near infinite when it is off; so in the translation of evaluateCircuit and in
\* that of buildCircuitModel.
C15_SwitchesAreStamped ==
  /\ Evaluated =>
        \A i \in 1..Len(dom) :
           dom[i].type = "switch" =>
             SwitchStamp(EvalModel(dom, connections).resistors, dom[i])
  /\ BasicRan =>
        \A i \in 1..Len(dom) :
           dom[i].type = "switch" =>
             SwitchStamp(buildCircuitModel(dom, connections).resistors, dom[i])

(***************************************************************************)
(* Simulation sessions and their timers.                                   *)
(***************************************************************************)
\* C16: once a simulation session has been stopped no interval timer started for a
\* session of its kind is still active, whatever the order of the clicks on the two
\* run/stop buttons.  The advanced session is stopped when stopSimulation has left
\* simInterval null, the basic one when stopBasicSimulation has cleared
\* isBasicSimRunning.
C16_StoppedSessionHasNoTimer ==
  /\ ~simInterval => simTimers = 0
  /\ ~isBasicSimRunning => ~basicSimInterval

\* the components and junctions of the workspace
ComponentSet(d) == {d[i].el : i \in 1..Len(d)}

\* C17: while an interval timer of an advanced or of a basic simulation is active,
\* no step changes the set of components or the list of wires: the editing
\* operations are refused.
C17_NoEditWhileTimerActive ==
  [][(simTimers > 0 \/ basicSimInterval) =>
       (ComponentSet(dom') = ComponentSet(dom) /\ connections' = connections)]_vars

(***************************************************************************)
(* Evaluation after every change.                                          *)
(***************************************************************************)
\* C18: every operation that changes the circuit (a wire created, a component dropped
\* or removed, a switch toggled) calls evaluateCircuit before its handler returns,
\* with or without a simulation session: between two handlers the last call of
\* evaluateCircuit has worked on the components, settings and wires as they are.
C18_EvaluatedAfterEveryChange ==
  /\ lastEval.dom = [i \in 1..Len(dom) |-> Drawn(dom[i])]
  /\ lastEval.conns = connections

\* C19: whatever wires were drawn by hand, restored by undo or read from a file, and
\* whatever was removed, no wire of the connection list has one connector as both
\* of its ends, and no wire joins the two terminals of one block.
C19_NoWireOnOneComponent ==
  \A k \in 1..Len(connections) :
    /\ connections[k][1] # connections[k][2]
    /\ ~(/\ ClosestBlock(connections[k][1]) # 0
         /\ ClosestBlock(connections[k][1]) = ClosestBlock(connections[k][2]))

\* the file with a wire across the battery and a wire from the node to itself has
\* been imported a second time, and only wires between different elements exist
C19_Witness ==
  /\ importing = 0
  /\ nextEl = 5
  /\ Len(connections) = 2
  /\ \E k \in 1..2 : connections[k][1][1] = 3

\* C20: in every state both ends of every wire are connectors of an element that is
\* in the workspace.
C20_WireEndsAreInWorkspace ==
  \A k \in 1..Len(connections) :
    \A side \in 1..2 :
      \E i \in 1..Len(dom) : dom[i].el = connections[k][side][1]

(***************************************************************************)
(* LED annotations.                                                        *)
(***************************************************************************)
\* dataset.forwardVoltage || 2
ForwardVoltage(e) == RInt(IF e.forwardVoltage # 0 THEN e.forwardVoltage ELSE 2)

\* C21: an LED that is marked powered shows a current above 1e-6 A, and the voltage
\* drop it shows, if it shows one, is at least its forward voltage; so after
\* evaluateCircuit with its heuristic passes and after a run of the basic solver.
C21_PoweredLedHasCurrent ==
  \A i \in 1..Len(dom) :
    (dom[i].type = "led" /\ dom[i].powered) =>
       /\ dom[i].current # Absent
       /\ RLt(<<1, 1000000>>, RAbs(dom[i].current))
       /\ (dom[i].voltageDrop # Absent =>
             ~RLt(RAbs(dom[i].voltageDrop), ForwardVoltage(dom[i])))

\* the output of the solver in the last call has an entry for block e: a
\* resistorResults entry or a source current of solveMNA, a resistorResults entry
\* of SimpleSolver.simulate
HasEntry(e) ==
  IF Evaluated
  THEN /\ lastEval.success
       /\ \/ \E k \in 1..Len(lastEval.resistors) : lastEval.resistors[k].block = e.el
          \/ \E k \in 1..Len(lastEval.vSources) : lastEval.vSources[k].block = e.el
  ELSE /\ BasicRan
       /\ \E r \in {simulate(buildCircuitModel(dom, connections)).resistorResults} :
            \E k \in 1..Len(r) : r[k].meta.block = e.el

\* C22: when evaluateCircuit has returned, or runBasicOnce has applied the results of
\* the basic solver, a block for which the solver's output has no entry shows no
\* current and no voltage drop, and is not powered if it is an LED, whatever it
\* showed before.
C22_NoEntryIsCleared ==
  ((Evaluated \/ BasicRan) /\ NothingChanged) =>
     \A i \in 1..Len(dom) :
        (IsBlock(dom[i]) /\ ~HasEntry(dom[i])) =>
           /\ dom[i].current = Absent
           /\ dom[i].voltageDrop = Absent
           /\ (dom[i].type = "led" => ~dom[i].powered)

DropOfHop(comp, I) ==
  IF Len(comp) = 0 THEN RZero
  ELSE IF Len(comp) = 1
  THEN (IF comp[1].type = "led" THEN LedVf(comp[1].meta)
        ELSE IF I = RZero THEN RZero ELSE RMul(I, comp[1].meta.R))
  ELSE RMax(IF RLt(RZero, Gsum(comp, 1)) THEN RMul(I, ParallelR(Gsum(comp, 1))) ELSE RZero,
            IF NumLeds(comp) > 0 THEN RInt(2) ELSE RZero)

\* nodeVoltages[i - 2]: what is left of Vb at the net the hop to nets[i] starts from
RECURSIVE nodeVoltages(_, _, _, _, _)
nodeVoltages(adj, Vb, nets, I, i) ==
  IF i <= 2 THEN Vb
  ELSE Bind(DropOfHop(ComponentMatches(adj, nets[i - 2], nets[i - 1]), I),
            LAMBDA d : RSum(nodeVoltages(adj, Vb, nets, I, i - 1), <<-d[1], d[2]>>))

\* the LEDs of a hop get what the claim allows
LedHopAllowed(adj, Vb, nets, I, i) ==
  \A k \in {k \in 1..Len(ComponentMatches(adj, nets[i - 1], nets[i])) :
              ComponentMatches(adj, nets[i - 1], nets[i])[k].type = "led"} :
     LET led == ComponentMatches(adj, nets[i - 1], nets[i])[k]
         res == HopResults(ComponentMatches(adj, nets[i - 1], nets[i]), I)
     IN  RLt(nodeVoltages(adj, Vb, nets, I, i), LedVf(led.meta)) =>
            /\ \A j \in 1..Len(res) : res[j].meta = led.meta => res[j].I = RZero
            /\ \A r \in {PathHops(adj, nets, I, 2)} : \A j \in 1..Len(r) : r[j].I = RZero

PathLedsAllowed(adj, Vb, p) ==
  Len(p.nets) < 2 \/
  \E I \in {PathCurrent(Vb, PathRsum(adj, p.nets, 2))} :
     \A i \in 2..Len(p.nets) : LedHopAllowed(adj, Vb, p.nets, I, i)

\* C24: in simulate, an LED on a path gets its forward-voltage drop and a current
\* other than zero only if the voltage left at that point of the path is at least
\* its forward voltage; otherwise its result and every result of the path carry the
\* current 0.  Stated for the model of the workspace as it is.
C24_LedNeedsForwardVoltage ==
  \A m \in {buildCircuitModel(dom, connections)} :
     \A adj \in {Adjacency(m)} :
        \A k \in 1..Len(m.vSources) :
           \A paths \in {findAllPaths(m.vSources[k].nPlus, m.vSources[k].nMinus, adj)} :
              \A p \in 1..Len(paths) : PathLedsAllowed(adj, m.vSources[k].V, paths[p])

\* C25: when several path results name the same component, the one result simulate
\* returns for it has the largest absolute current of them, whatever the order of the
\* paths.  Stated for the model of the workspace as it is.
C25_DedupKeepsLargestCurrent ==
  \A m \in {buildCircuitModel(dom, connections)} :
     \A all \in {SourcesResults(Adjacency(m), m.vSources, 1)} :
        \A kept \in {Deduplicate(all)} :
           \A i \in 1..Len(kept) :
              \A j \in 1..Len(all) :
                 all[j].meta.id = kept[i].meta.id => ~RLt(RAbs(kept[i].I), RAbs(all[j].I))

\* C26: after an evaluation (evaluateCircuit with its fallback powering, or a basic
\* run) an LED whose only loop to a battery passes through a switch that is off is not
\* marked powered.  The one circuit of the bench with a switch has it in series with
\* the LED, so whatever is left of its wires the LED has no loop that avoids the switch.
C26_LedBehindOffSwitchIsDark ==
  ((Evaluated \/ BasicRan) /\ NothingChanged
     /\ \E s \in 1..Len(dom) : dom[s].type = "switch" /\ dom[s].state = "off") =>
     \A i \in 1..Len(dom) : dom[i].type = "led" => ~dom[i].powered

\* C27: after any creations, imports and undos no two components of the workspace
\* have the same id: an id restored from a file or from a snapshot is never the id
\* the block counter hands out later.
C27_ComponentIdsDiffer ==
  \A i, j \in 1..Len(dom) :
     (IsBlock(dom[i]) /\ IsBlock(dom[j]) /\ i # j) => dom[i].id # dom[j].id

\* a wire as the pair of its ends, each end the id of its owner and the terminal
SavedPairs(saved) ==
  {{<<saved[k][1], saved[k][2]>>, <<saved[k][3], saved[k][4]>>} : k \in 1..Len(saved)}

OwnerKey(d, conn) ==
  IF \E i \in 1..Len(d) : d[i].el = conn[1]
  THEN IdKey(d[CHOOSE i \in 1..Len(d) : d[i].el = conn[1]])
  ELSE <<"none", 0>>

DrawnPairs(d, conns) ==
  {{<<OwnerKey(d, conns[k][1]), conns[k][1][2]>>, <<OwnerKey(d, conns[k][2]), conns[k][2][2]>>} :
     k \in 1..Len(conns)}

\* C28: when undo pops a snapshot, the wire list it leaves is the wire set of the
\* snapshot: as many wires, joining the same terminals of the components and wire
\* junctions with the saved ids.
C28_UndoRestoresWires ==
  [][Len(undoStack') < Len(undoStack) =>
       /\ DrawnPairs(dom', connections') = SavedPairs(undoStack[Len(undoStack)].conns)
       /\ Len(connections') = Len(undoStack[Len(undoStack)].conns)]_vars

\* C29: the connection list never holds two wires joining the same two connectors,
\* in either order: creating a wire between connectors that a wire joins already
\* leaves the list as it is.
C29_NoTwoWiresOnOnePair ==
  \A i, j \in 1..Len(connections) :
     i # j => {connections[i][1], connections[i][2]} # {connections[j][1], connections[j][2]}

\* the file has been loaded: it names the wire from the battery to the junction
\* twice, and the list holds it once
C29_Witness ==
  /\ lastEval.conns = connections
  /\ \E b, n \in 1..Len(dom) :
        /\ dom[b].type = "battery" /\ dom[b].id = 2 /\ ~IsBlock(dom[n])
        /\ connections = << << <<dom[b].el, "R">>, <<dom[n].el, "N">> >> >>

\* how often the net n is on the path
TimesOn(nets, n) == Cardinality({i \in 1..Len(nets) : nets[i] = n})

\* C30: the path search comes to an end on every net graph, with cycles and with
\* parallel edges: no walk is longer than two visits of every net allow, at most
\* maxPaths paths are returned, and each starts at the source's positive net and ends
\* at its negative net.
C30_PathSearchIsBounded ==
  \A m \in {buildCircuitModel(dom, connections)} :
     \A k \in 1..Len(m.vSources) :
        \A paths \in {findAllPaths(m.vSources[k].nPlus, m.vSources[k].nMinus, Adjacency(m))} :
           /\ Len(paths) <= MaxPaths
           /\ \A p \in 1..Len(paths) :
                 /\ paths[p].nets[1] = m.vSources[k].nPlus
                 /\ paths[p].nets[Len(paths[p].nets)] = m.vSources[k].nMinus
                 /\ \A n \in 0..(Len(Adjacency(m)) - 1) : TimesOn(paths[p].nets, n) <= 2
                 /\ Len(paths[p].nets) <= 2 * Len(Adjacency(m))

\* the two resistors in parallel: three edges between the two nets, walks that pass
\* the negative net and come back, and the search stopped at maxPaths paths
C30_Witness ==
  /\ Holds(ParallelCircuit)
  /\ \E m \in {buildCircuitModel(dom, connections)} :
        \E paths \in {findAllPaths(m.vSources[1].nPlus, m.vSources[1].nMinus, Adjacency(m))} :
           /\ Len(paths) = MaxPaths
           /\ \E p \in 1..Len(paths) : Len(paths[p].nets) > 2

====
